---- MODULE Spec2Model ----
(***************************************************************************)
(* The fantasy-squad bot of src/bot.py and src/hostthis.py as a state      *)
(* machine.  The state is the shared document `db` (one variable per       *)
(* top-level key), the process-wide dict `locked_matches`, the verification *)
(* prompts delivered to the admin group (each carries a Verify button whose *)
(* callback data is fixed when the prompt is sent) and the reply the last   *)
(* handler sent.  One action per command / callback branch.                 *)
(*                                                                         *)
(* The nested dicts db[key][user_id][match] are kept as one function keyed  *)
(* by <<user_id, match>>: every read in the source goes through             *)
(* .get(user_id, {}).get(match), so an empty inner dict and a missing one   *)
(* are the same to every handler.                                           *)
(***************************************************************************)
EXTENDS Integers, Sequences, FiniteSets, TLC

VARIABLES
    variant,              \* which of the two programs runs: "bot" or "hostthis"
    matches,              \* db["matches"]: match -> [teams, players]
    user_teams,           \* db["user_teams"]: <<user, match>> -> list of players
    captains,             \* db["captains"]: <<user, match>> -> player
    vice_captains,        \* db["vice_captains"]: <<user, match>> -> player
    pending_bets,         \* db["pending_bets"]: <<user, match>> -> [room, amount]
    amounts,              \* db["amounts"]: <<user, match>> -> verified amount
    points,               \* db["points"]: player -> points
    yon_questions,        \* db["yon_questions"]: id -> [question, options]
    yon_user_answers,     \* db["yon_user_answers"]: <<user, id>> -> option text
    answerers,            \* the user keys of db["yon_user_answers"], in insertion order
    yon_correct_answers,  \* db["yon_correct_answers"]: id -> option text
    locked_matches,       \* keys of the dict locked_matches (values are always True)
    prompts,              \* Verify buttons delivered to the group: <<user, match, amount>>
    vc_buttons,           \* selectvc:: buttons rendered by choosevc::: <<user, match, player>>
    issued_ids,           \* history: every question id yonadd has assigned so far
    disk,                 \* the persisted document (primary store / data file)
    bak,                  \* hostthis.py: the .bak copy of the data file
    user_command_counts,  \* hostthis.py: user -> [count, last_reset]
    now,                  \* the clock time.time() reads, in seconds
    storage_up,           \* whether a write to the store goes through
    calls,                \* callbacks received together: <<[call, done], ...>>, in order of arrival
    seen,                 \* the document as it was when those callbacks were received
    awaiting_upload,      \* users whose context.user_data["awaiting_upload"] is True
    first_run,            \* what bot.py made of the calls that hostthis.py is given next
    reply,                \* what the last handler answered: [op, to, text]
    script,               \* position reached in the end-to-end scenario, -1 once off it
    steps                 \* operations performed (used by the depth-bounded specifications)

dbvars == <<matches, user_teams, captains, vice_captains, pending_bets, amounts,
            points, yon_questions, yon_user_answers, answerers, yon_correct_answers>>
squadvars == <<user_teams, captains, vice_captains>>
betvars == <<pending_bets, amounts>>
yonvars == <<yon_questions, yon_user_answers, answerers, yon_correct_answers>>
files == <<disk, bak>>
spamvars == <<user_command_counts, now>>
vars == <<variant, matches, user_teams, captains, vice_captains, pending_bets, amounts,
          points, yon_questions, yon_user_answers, answerers, yon_correct_answers,
          locked_matches, prompts, vc_buttons, issued_ids, disk, bak, storage_up,
          user_command_counts, now,
          calls, seen, awaiting_upload, first_run, reply, script, steps>>

(***************************************************************************)
(* Inputs.                                                                 *)
(***************************************************************************)
Variants == {"bot", "hostthis"}
ADMIN_IDS == {"adm"}
Users == {"u1", "u2", "adm"}
Matches == {"A", "B"}
Teams == {"X"}
Players == {"P1", "P2"}
NameLists == { <<"P1", "P2">> }
Rooms == { [room |-> "Chotu", amount |-> 500], [room |-> "Rocket", amount |-> 2500] }
PointValues == {50, 100}
QuestionTexts == {"Will it rain?", ""}
OptionTexts == {"Yes", "No"}
OptionNumbers == {1, 2, 3}
TeamCap == 11
\* the exhaustive specification: one squad builder, one administrator, one match
MainUsers == {"u1", "adm"}
MainSquadUsers == {"u1"}
MainMatches == {"A"}
\* the depth-bounded specifications: operations allowed off the scenario
MaxOff == 1
MaxQuestions == 2
\* squads at the cap: twelve player names, and the operations made on a nearly full squad
CapOrder == <<"Q01", "Q02", "Q03", "Q04", "Q05", "Q06", "Q07", "Q08", "Q09", "Q10", "Q11", "Q12">>
CapPlayers == {CapOrder[i] : i \in DOMAIN CapOrder}
MaxCapSteps == 3

(***************************************************************************)
(* Python dict and list helpers.                                           *)
(***************************************************************************)
EmptyDict == <<>>
Has(d, k) == k \in DOMAIN d
Put(d, k, v) == [x \in (DOMAIN d) \cup {k} |-> IF x = k THEN v ELSE d[x]]
\* faulty variant: nothing is deleted
PopKeeps(d, k) == d
Pop(d, k) == [x \in (DOMAIN d) \ {k} |-> d[x]]
\* faulty variant: the cascade is forgotten
PopNothing(d, m) == d
PopMatch(d, m) == [x \in {y \in DOMAIN d : y[2] # m} |-> d[x]]
Range(s) == {s[i] : i \in DOMAIN s}
\* faulty variant: every name passes the membership test
InAny(p, s) == TRUE
In(p, s) == p \in Range(s)
\* faulty variant: the last player leaves instead of p
ListDropLast(s, p) == SubSeq(s, 1, Len(s) - 1)
\* list.remove(p): drops the first occurrence of p
ListRemove(s, p) ==
    LET i == CHOOSE j \in DOMAIN s : s[j] = p /\ \A k \in 1..(j - 1) : s[k] # p
    IN [j \in 1..(Len(s) - 1) |-> IF j < i THEN s[j] ELSE s[j + 1]]
\* [p for p in s if p not in gone]
Without(s, gone) == SelectSeq(s, LAMBDA p : ~In(p, gone))

\* faulty variant: everyone passes the admin test
is_admin_open(user_id) == TRUE
is_admin(user_id) == user_id \in ADMIN_IDS

\* faulty variant: the squad is the one read when the callback was received
seen_team(u, m) ==
    IF Has(seen.user_teams, <<u, m>>) THEN seen.user_teams[<<u, m>>] ELSE <<>>
\* db["user_teams"].get(user_id, {}).get(match, [])
current_team(u, m) == IF Has(user_teams, <<u, m>>) THEN user_teams[<<u, m>>] ELSE <<>>
\* faulty variant: the lock is never seen
is_locked_never(m) == FALSE
\* faulty variant: the lock flag is the one read when the callback was received
is_locked_seen(m) == m \in seen.locked_matches
\* locked_matches.get(match, False)
is_locked(m) == m \in locked_matches

Respond(op, to, text) == reply' = [op |-> op, to |-> to, text |-> text]

\* the document `db`, as save_db writes it and load_db reads it
Doc == [matches |-> matches, user_teams |-> user_teams, points |-> points,
        amounts |-> amounts, yon_questions |-> yon_questions,
        yon_user_answers |-> yon_user_answers, answerers |-> answerers,
        yon_correct_answers |-> yon_correct_answers, pending_bets |-> pending_bets,
        captains |-> captains, vice_captains |-> vice_captains]
\* the default empty structure
initialize_empty_db ==
    [matches |-> <<>>, user_teams |-> <<>>, points |-> <<>>, amounts |-> <<>>,
     yon_questions |-> <<>>, yon_user_answers |-> <<>>, answerers |-> <<>>,
     yon_correct_answers |-> <<>>, pending_bets |-> <<>>, captains |-> <<>>,
     vice_captains |-> <<>>]
\* no .bak copy has been made
NoFile == [file |-> "none"]
\* a data file cut short: opened for writing and left empty or with part of the text
Torn == [file |-> "torn"]
\* the document the program starts with: the data file if it parses to a
\* document with the required keys, the empty structure otherwise
load(file) == IF file \in {Torn, NoFile} THEN initialize_empty_db ELSE file
\* a .bak copy whose content is not followed: no handler reads the copy, so
\* only the specification that stops the process in save_db follows it
AnyFile == [file |-> "any"]
\* save_db: the whole document is written; a failed write is logged and swallowed.
\* hostthis.py copies the data file to its .bak before it writes.
save_db ==
    /\ disk' = IF storage_up THEN Doc' ELSE disk
    /\ bak' = IF storage_up /\ variant = "hostthis" /\ bak # AnyFile THEN disk ELSE bak

(***************************************************************************)
(* The end-to-end scenario of the specification, followed from the initial *)
(* state: `script` counts how many of its calls have been made in order.    *)
(***************************************************************************)
Script == <<
    <<"addmatch", "adm", "A">>,
    <<"addteam", "adm", "A", "X">>,
    <<"addplayer", "adm", "A", "X", <<"P1", "P2">>>>,
    <<"create", "u1", "A">>,
    <<"selectplayer", "u1", "A", "X", "P1">>,
    <<"selectplayer", "u1", "A", "X", "P2">>,
    <<"selectcaptain", "u1", "A", "P1">>,
    <<"selectvc", "u1", "A", "P2">>,
    <<"room", "u1", "A", "Rocket", 2500, TRUE>>,
    <<"verify_bet", "adm", "u1", "A", 2500>> >>

OnScript(call) ==
    /\ script >= 0
    /\ script < Len(Script)
    /\ Script[script + 1][1] = call[1]
    /\ Script[script + 1] = call

\* the callbacks of `cs` that wait at `await query.answer()` for their body to run
Waiting(cs, call) ==
    {i \in DOMAIN cs : ~cs[i].done /\ cs[i].call[1] = call[1] /\ cs[i].call = call}
\* the body of `call` has run: the first waiting callback that carries it is through
Finish(cs, call) ==
    IF Waiting(cs, call) = {} THEN cs
    ELSE LET i == CHOOSE j \in Waiting(cs, call) : \A k \in Waiting(cs, call) : j <= k
         IN [cs EXCEPT ![i].done = TRUE]

\* steps counts the operations made off the scenario; -1 when they are not counted
Track(call) ==
    /\ script' = IF OnScript(call) THEN script + 1 ELSE -1
    /\ steps' = IF steps < 0 \/ OnScript(call) THEN steps ELSE steps + 1
    /\ calls' = Finish(calls, call)

\* no run of the calls has been kept for comparison
NoRun == [done |-> FALSE, doc |-> <<>>, locked |-> {}, reply |-> <<>>]

(***************************************************************************)
(* Initial state: the empty document, nothing locked, nothing sent.        *)
(***************************************************************************)
EmptyDb ==
    /\ matches = EmptyDict
    /\ user_teams = EmptyDict
    /\ captains = EmptyDict
    /\ vice_captains = EmptyDict
    /\ pending_bets = EmptyDict
    /\ amounts = EmptyDict
    /\ points = EmptyDict
    /\ yon_questions = EmptyDict
    /\ yon_user_answers = EmptyDict
    /\ answerers = <<>>
    /\ yon_correct_answers = EmptyDict
    /\ locked_matches = {}
    /\ prompts = {}
    /\ vc_buttons = {}
    /\ issued_ids = {}
    /\ disk = Doc
    /\ bak = AnyFile
    /\ user_command_counts = EmptyDict
    /\ now = 0
    /\ storage_up = TRUE
    /\ calls = <<>>
    /\ seen = Doc
    /\ awaiting_upload = {}
    /\ first_run = NoRun

Init ==
    /\ variant \in Variants
    /\ EmptyDb
    /\ reply = [op |-> "start", to |-> "adm", text |-> "Started"]
    /\ script = -1
    /\ steps = -1

(***************************************************************************)
(* Match catalog (admin commands).                                         *)
(***************************************************************************)
\* faulty variant: no name is ever found in the catalog
match_in_none(m) == FALSE
\* match in db["matches"]
match_in_db(m) == Has(matches, m)

addmatch(a, m) ==
    /\ Track(<<"addmatch", a, m>>)
    /\ UNCHANGED <<variant, spamvars, first_run, storage_up, seen, awaiting_upload, vc_buttons,
                   issued_ids, locked_matches, prompts>>
    /\ IF ~is_admin(a)
       THEN Respond("addmatch", a, "NotAuthorized") /\ UNCHANGED <<dbvars, files>>
       ELSE IF match_in_db(m)
       THEN Respond("addmatch", a, "MatchExists") /\ UNCHANGED <<dbvars, files>>
       ELSE /\ matches' = Put(matches, m, [teams |-> EmptyDict, players |-> <<>>])
            /\ Respond("addmatch", a, "MatchAdded")
            /\ UNCHANGED <<squadvars, betvars, points, yonvars>>
            /\ save_db

removematch(a, m) ==
    /\ Track(<<"removematch", a, m>>)
    /\ UNCHANGED <<variant, spamvars, first_run, storage_up, seen, awaiting_upload, vc_buttons,
                   issued_ids, prompts>>
    /\ IF ~is_admin(a)
       THEN Respond("removematch", a, "NotAuthorized") /\ UNCHANGED <<dbvars, files, locked_matches>>
       ELSE IF ~match_in_db(m)
       THEN Respond("removematch", a, "MatchNotFound") /\ UNCHANGED <<dbvars, files, locked_matches>>
       ELSE /\ matches' = Pop(matches, m)
            /\ user_teams' = PopMatch(user_teams, m)
            /\ amounts' = PopMatch(amounts, m)
            /\ pending_bets' = PopMatch(pending_bets, m)
            /\ captains' = PopMatch(captains, m)
            /\ vice_captains' = PopMatch(vice_captains, m)
            /\ locked_matches' = locked_matches \ {m}
            /\ Respond("removematch", a, "MatchRemoved")
            /\ UNCHANGED <<points, yonvars>>
            /\ save_db

addteam(a, m, t) ==
    /\ Track(<<"addteam", a, m, t>>)
    /\ UNCHANGED <<variant, spamvars, first_run, storage_up, seen, awaiting_upload, vc_buttons,
                   issued_ids, locked_matches, prompts>>
    /\ IF ~is_admin(a)
       THEN Respond("addteam", a, "NotAuthorized") /\ UNCHANGED <<dbvars, files>>
       ELSE IF ~Has(matches, m)
       THEN Respond("addteam", a, "MatchNotFound") /\ UNCHANGED <<dbvars, files>>
       ELSE /\ matches' = [matches EXCEPT ![m].teams = Put(@, t, <<>>)]
            /\ Respond("addteam", a, "TeamAdded")
            /\ UNCHANGED <<squadvars, betvars, points, yonvars>>
            /\ save_db

removeteam(a, m, t) ==
    /\ Track(<<"removeteam", a, m, t>>)
    /\ UNCHANGED <<variant, spamvars, first_run, storage_up, seen, awaiting_upload, vc_buttons,
                   issued_ids, locked_matches, prompts>>
    /\ IF ~is_admin(a)
       THEN Respond("removeteam", a, "NotAuthorized") /\ UNCHANGED <<dbvars, files>>
       ELSE IF ~Has(matches, m)
       THEN Respond("removeteam", a, "MatchNotFound") /\ UNCHANGED <<dbvars, files>>
       ELSE IF ~Has(matches[m].teams, t)
       THEN Respond("removeteam", a, "TeamNotFound") /\ UNCHANGED <<dbvars, files>>
       ELSE /\ matches' = [matches EXCEPT
                              ![m].teams = Pop(@, t),
                              ![m].players = Without(@, matches[m].teams[t])]
            /\ Respond("removeteam", a, "TeamRemoved")
            /\ UNCHANGED <<squadvars, betvars, points, yonvars>>
            /\ save_db

addplayer(a, m, t, names) ==
    /\ Track(<<"addplayer", a, m, t, names>>)
    /\ UNCHANGED <<variant, spamvars, first_run, storage_up, seen, awaiting_upload, vc_buttons,
                   issued_ids, locked_matches, prompts>>
    /\ IF ~is_admin(a)
       THEN Respond("addplayer", a, "NotAuthorized") /\ UNCHANGED <<dbvars, files>>
       ELSE IF ~Has(matches, m)
       THEN Respond("addplayer", a, "MatchNotFound") /\ UNCHANGED <<dbvars, files>>
       ELSE IF ~Has(matches[m].teams, t)
       THEN Respond("addplayer", a, "TeamNotFound") /\ UNCHANGED <<dbvars, files>>
       ELSE /\ matches' = [matches EXCEPT
                              ![m].teams[t] = @ \o names,
                              ![m].players = @ \o names]
            /\ Respond("addplayer", a, "PlayersAdded")
            /\ UNCHANGED <<squadvars, betvars, points, yonvars>>
            /\ save_db

resetplayers(a, m, t) ==
    /\ Track(<<"resetplayers", a, m, t>>)
    /\ UNCHANGED <<variant, spamvars, first_run, storage_up, seen, awaiting_upload, vc_buttons,
                   issued_ids, locked_matches, prompts>>
    /\ IF ~is_admin(a)
       THEN Respond("resetplayers", a, "NotAuthorized") /\ UNCHANGED <<dbvars, files>>
       ELSE IF ~Has(matches, m)
       THEN Respond("resetplayers", a, "MatchNotFound") /\ UNCHANGED <<dbvars, files>>
       ELSE IF ~Has(matches[m].teams, t)
       THEN Respond("resetplayers", a, "TeamNotFound") /\ UNCHANGED <<dbvars, files>>
       ELSE /\ matches' = [matches EXCEPT
                              ![m].players = Without(@, matches[m].teams[t]),
                              ![m].teams[t] = <<>>]
            /\ Respond("resetplayers", a, "PlayersReset")
            /\ UNCHANGED <<squadvars, betvars, points, yonvars>>
            /\ save_db

lock_match(a, m) ==
    /\ Track(<<"lock_match", a, m>>)
    /\ UNCHANGED <<variant, spamvars, first_run, storage_up, seen, awaiting_upload, vc_buttons,
                   issued_ids, dbvars, files, prompts>>
    /\ IF ~is_admin(a)
       THEN Respond("lock_match", a, "NotAuthorized") /\ UNCHANGED locked_matches
       ELSE IF ~Has(matches, m)
       THEN Respond("lock_match", a, "MatchNotFound") /\ UNCHANGED locked_matches
       ELSE /\ locked_matches' = locked_matches \cup {m}
            /\ Respond("lock_match", a, "Locked")

unlock_match(a, m) ==
    /\ Track(<<"unlock_match", a, m>>)
    /\ UNCHANGED <<variant, spamvars, first_run, storage_up, seen, awaiting_upload, vc_buttons,
                   issued_ids, dbvars, files, prompts>>
    /\ IF ~is_admin(a)
       THEN Respond("unlock_match", a, "NotAuthorized") /\ UNCHANGED locked_matches
       ELSE IF ~Has(matches, m)
       THEN Respond("unlock_match", a, "MatchNotFound") /\ UNCHANGED locked_matches
       ELSE IF m \notin locked_matches
       THEN Respond("unlock_match", a, "NotLocked") /\ UNCHANGED locked_matches
       ELSE /\ locked_matches' = locked_matches \ {m}
            /\ Respond("unlock_match", a, "Unlocked")

clear(a) ==
    /\ Track(<<"clear", a>>)
    /\ UNCHANGED <<variant, spamvars, first_run, storage_up, seen, awaiting_upload, vc_buttons,
                   issued_ids, prompts>>
    /\ IF ~is_admin(a)
       THEN Respond("clear", a, "NotAuthorized") /\ UNCHANGED <<dbvars, files, locked_matches>>
       ELSE /\ matches' = EmptyDict
            /\ user_teams' = EmptyDict
            /\ points' = EmptyDict
            /\ amounts' = EmptyDict
            /\ yon_questions' = EmptyDict
            /\ yon_user_answers' = EmptyDict
            /\ answerers' = <<>>
            /\ yon_correct_answers' = EmptyDict
            /\ pending_bets' = EmptyDict
            /\ captains' = EmptyDict
            /\ vice_captains' = EmptyDict
            /\ locked_matches' = {}
            /\ Respond("clear", a, "Cleared")
            /\ save_db

points_cmd(a, p, pts) ==
    /\ Track(<<"points", a, p, pts>>)
    /\ UNCHANGED <<variant, spamvars, first_run, storage_up, seen, awaiting_upload, vc_buttons,
                   issued_ids, locked_matches, prompts>>
    /\ IF ~is_admin(a)
       THEN Respond("points", a, "NotAuthorized") /\ UNCHANGED <<dbvars, files>>
       ELSE /\ points' = Put(points, p, pts)
            /\ Respond("points", a, "PointsSet")
            /\ UNCHANGED <<matches, squadvars, betvars, yonvars>>
            /\ save_db

(***************************************************************************)
(* Squad builder (callback branches of user_callback).                     *)
(***************************************************************************)
create(u, m) ==
    /\ Track(<<"create", u, m>>)
    /\ UNCHANGED <<variant, spamvars, first_run, storage_up, seen, awaiting_upload, vc_buttons,
                   issued_ids, locked_matches, prompts>>
    /\ IF ~Has(matches, m)
       THEN Respond("create", u, "MatchNotFound") /\ UNCHANGED <<dbvars, files>>
       ELSE IF is_locked(m)
       THEN Respond("create", u, "MatchLocked") /\ UNCHANGED <<dbvars, files>>
       ELSE /\ user_teams' = IF Has(user_teams, <<u, m>>) THEN user_teams
                             ELSE Put(user_teams, <<u, m>>, <<>>)
            /\ Respond("create", u, "TeamMenu")
            /\ UNCHANGED <<matches, captains, vice_captains, betvars, points, yonvars, files>>

\* bot.py: one test, len < 11 and not yet selected; nothing is said when it fails
\* faulty variant: the cap test is off by one
selectplayer_bot_loose(u, m, t, p) ==
    LET team == current_team(u, m) IN
    /\ user_teams' = IF Len(team) <= TeamCap /\ ~In(p, team)
                     THEN Put(user_teams, <<u, m>>, Append(team, p))
                     ELSE Put(user_teams, <<u, m>>, team)
    /\ Respond("selectplayer", u, "PlayerKeyboard")
selectplayer_bot(u, m, t, p) ==
    LET team == current_team(u, m) IN
    /\ user_teams' = IF Len(team) < TeamCap /\ ~In(p, team)
                     THEN Put(user_teams, <<u, m>>, Append(team, p))
                     ELSE Put(user_teams, <<u, m>>, team)
    /\ Respond("selectplayer", u, "PlayerKeyboard")

\* hostthis.py: a full squad is answered with an alert before the membership test
selectplayer_hostthis(u, m, t, p) ==
    LET team == current_team(u, m) IN
    IF Len(team) >= TeamCap
    THEN /\ user_teams' = Put(user_teams, <<u, m>>, team)
         /\ Respond("selectplayer", u, "TeamFull")
    ELSE /\ user_teams' = IF ~In(p, team)
                          THEN Put(user_teams, <<u, m>>, Append(team, p))
                          ELSE Put(user_teams, <<u, m>>, team)
         /\ Respond("selectplayer", u, "PlayerKeyboard")

\* the click appended a player: only then is the document saved
appended(u, m) == user_teams'[<<u, m>>] # current_team(u, m)

selectplayer(u, m, t, p) ==
    /\ Track(<<"selectplayer", u, m, t, p>>)
    /\ UNCHANGED <<variant, spamvars, first_run, storage_up, seen, awaiting_upload, vc_buttons,
                   issued_ids, locked_matches, prompts>>
    /\ IF ~Has(matches, m)
       THEN Respond("selectplayer", u, "MatchNotFound") /\ UNCHANGED <<dbvars, files>>
       ELSE IF is_locked(m)
       THEN Respond("selectplayer", u, "MatchLocked") /\ UNCHANGED <<dbvars, files>>
       ELSE /\ IF variant = "bot" THEN selectplayer_bot(u, m, t, p)
                                  ELSE selectplayer_hostthis(u, m, t, p)
            /\ UNCHANGED <<matches, captains, vice_captains, betvars, points, yonvars>>
            /\ IF appended(u, m) THEN save_db ELSE UNCHANGED files

\* a role held by the removed player is dropped
\* faulty variant: the role outlives the player
keep_role(roles, u, m, p) == roles
clear_role(roles, u, m, p) ==
    IF Has(roles, <<u, m>>) /\ roles[<<u, m>>] = p THEN Pop(roles, <<u, m>>) ELSE roles

removeplayer(u, m, p, t) ==
    /\ Track(<<"removeplayer", u, m, p, t>>)
    /\ UNCHANGED <<variant, spamvars, first_run, storage_up, seen, awaiting_upload, vc_buttons,
                   issued_ids, locked_matches, prompts>>
    /\ IF ~Has(matches, m)
       THEN Respond("removeplayer", u, "MatchNotFound") /\ UNCHANGED <<dbvars, files>>
       ELSE IF is_locked(m)
       THEN Respond("removeplayer", u, "MatchLocked") /\ UNCHANGED <<dbvars, files>>
       ELSE /\ IF In(p, current_team(u, m))
               THEN /\ user_teams' = Put(user_teams, <<u, m>>, ListRemove(current_team(u, m), p))
                    /\ captains' = clear_role(captains, u, m, p)
                    /\ vice_captains' = clear_role(vice_captains, u, m, p)
               ELSE UNCHANGED squadvars
            /\ Respond("removeplayer", u, "PlayerKeyboard")
            /\ UNCHANGED <<matches, betvars, points, yonvars>>
            /\ IF In(p, current_team(u, m)) THEN save_db ELSE UNCHANGED files

selectcaptain(u, m, p) ==
    /\ Track(<<"selectcaptain", u, m, p>>)
    /\ UNCHANGED <<variant, spamvars, first_run, storage_up, seen, awaiting_upload, vc_buttons,
                   issued_ids, locked_matches, prompts>>
    /\ IF ~Has(matches, m)
       THEN Respond("selectcaptain", u, "MatchNotFound") /\ UNCHANGED <<dbvars, files>>
       ELSE IF is_locked(m)
       THEN Respond("selectcaptain", u, "MatchLocked") /\ UNCHANGED <<dbvars, files>>
       ELSE IF ~In(p, current_team(u, m))
       THEN Respond("selectcaptain", u, "PlayerNotInTeam") /\ UNCHANGED <<dbvars, files>>
       ELSE /\ captains' = Put(captains, <<u, m>>, p)
            /\ Respond("selectcaptain", u, "MatchMenu")
            /\ UNCHANGED <<matches, user_teams, vice_captains, betvars, points, yonvars>>
            /\ save_db

\* bot.py refuses the current captain; hostthis.py has no such test
vc_refused(u, m, p) ==
    variant = "bot" /\ Has(captains, <<u, m>>) /\ captains[<<u, m>>] = p

\* the buttons choosevc:: renders: bot.py leaves the captain out, hostthis.py does not
vc_keyboard(u, m) ==
    LET team == current_team(u, m) IN
    IF variant = "bot" /\ Has(captains, <<u, m>>)
    THEN {<<u, m, p>> : p \in Range(team) \ {captains[<<u, m>>]}}
    ELSE {<<u, m, p>> : p \in Range(team)}

\* the vice-captain menu: it changes nothing in db; its buttons stay clickable afterwards
choosevc(u, m) ==
    /\ Track(<<"choosevc", u, m>>)
    /\ UNCHANGED <<variant, spamvars, first_run, storage_up, seen, awaiting_upload, dbvars, files,
                   issued_ids, locked_matches, prompts>>
    /\ IF ~Has(matches, m)
       THEN Respond("choosevc", u, "MatchNotFound") /\ UNCHANGED vc_buttons
       ELSE IF is_locked(m)
       THEN Respond("choosevc", u, "MatchLocked") /\ UNCHANGED vc_buttons
       ELSE IF Len(current_team(u, m)) < 2
       THEN Respond("choosevc", u, "NeedTwoPlayers") /\ UNCHANGED vc_buttons
       ELSE /\ vc_buttons' = vc_buttons \cup vc_keyboard(u, m)
            /\ Respond("choosevc", u, "ChooseViceCaptain")

selectvc(u, m, p) ==
    /\ Track(<<"selectvc", u, m, p>>)
    /\ UNCHANGED <<variant, spamvars, first_run, storage_up, seen, awaiting_upload, vc_buttons,
                   issued_ids, locked_matches, prompts>>
    /\ IF ~Has(matches, m)
       THEN Respond("selectvc", u, "MatchNotFound") /\ UNCHANGED <<dbvars, files>>
       ELSE IF is_locked(m)
       THEN Respond("selectvc", u, "MatchLocked") /\ UNCHANGED <<dbvars, files>>
       ELSE IF ~In(p, current_team(u, m))
       THEN Respond("selectvc", u, "PlayerNotInTeam") /\ UNCHANGED <<dbvars, files>>
       ELSE IF vc_refused(u, m, p)
       THEN Respond("selectvc", u, "AlreadyCaptain") /\ UNCHANGED <<dbvars, files>>
       ELSE /\ vice_captains' = Put(vice_captains, <<u, m>>, p)
            /\ Respond("selectvc", u, "MatchMenu")
            /\ UNCHANGED <<matches, user_teams, captains, betvars, points, yonvars>>
            /\ save_db

(***************************************************************************)
(* Bet handshake.  `sent` is whether the prompt reached the admin group    *)
(* (send_message raising TelegramError or not).                            *)
(***************************************************************************)
\* db["user_teams"].get(user_id, {}).get(match) is truthy: a squad with a player in it
\* faulty variant: an emptied squad still counts
has_team_entry(u, m) == Has(user_teams, <<u, m>>)
has_team(u, m) == current_team(u, m) # <<>>

room(u, m, r, amount, sent) ==
    /\ Track(<<"room", u, m, r, amount, sent>>)
    /\ UNCHANGED <<variant, spamvars, first_run, storage_up, seen, awaiting_upload, vc_buttons,
                   issued_ids, locked_matches>>
    /\ IF ~Has(matches, m)
       THEN Respond("room", u, "MatchNotFound") /\ UNCHANGED <<dbvars, files, prompts>>
       ELSE IF is_locked(m)
       THEN Respond("room", u, "MatchLocked") /\ UNCHANGED <<dbvars, files, prompts>>
       ELSE IF ~has_team(u, m)
       THEN Respond("room", u, "NoTeam") /\ UNCHANGED <<dbvars, files, prompts>>
       ELSE /\ pending_bets' = Put(pending_bets, <<u, m>>, [room |-> r, amount |-> amount])
            /\ IF sent
               THEN /\ prompts' = prompts \cup {<<u, m, amount>>}
                    /\ Respond("room", u, "VerificationSent")
               ELSE /\ UNCHANGED prompts
                    /\ Respond("room", u, "SendFailed")
            /\ UNCHANGED <<matches, squadvars, amounts, points, yonvars>>
            /\ save_db

\* the test the handler makes on the pending request
\* faulty variant: the pending request is not looked up
bet_assumed(target, m, amount) == TRUE
bet_pending(target, m, amount) == Has(pending_bets, <<target, m>>)

\* db["pending_bets"][target_user_id].pop(match, None)
\* faulty variant: the request stays pending after verification
keep_pending(target, m) == pending_bets
drop_pending(target, m) == Pop(pending_bets, <<target, m>>)

verify_bet(a, target, m, amount) ==
    /\ Track(<<"verify_bet", a, target, m, amount>>)
    /\ UNCHANGED <<variant, spamvars, first_run, storage_up, seen, awaiting_upload, vc_buttons,
                   issued_ids, locked_matches, prompts>>
    /\ IF ~is_admin(a)
       THEN Respond("verify_bet", a, "NotAuthorized") /\ UNCHANGED <<dbvars, files>>
       ELSE IF ~bet_pending(target, m, amount)
       THEN Respond("verify_bet", a, "BetNotFound") /\ UNCHANGED <<dbvars, files>>
       ELSE /\ amounts' = Put(amounts, <<target, m>>, amount)
            /\ pending_bets' = drop_pending(target, m)
            /\ Respond("verify_bet", a, "BetVerified")
            /\ UNCHANGED <<matches, squadvars, points, yonvars>>
            /\ save_db

(***************************************************************************)
(* Prediction questions.  An id is the decimal string str(n); it is kept   *)
(* as the number n.                                                        *)
(***************************************************************************)
\* str(len(db["yon_questions"]) + 1)
question_id == Cardinality(DOMAIN yon_questions) + 1

yonadd(a, q, o1, o2) ==
    /\ Track(<<"yonadd", a, q, o1, o2>>)
    /\ UNCHANGED <<variant, spamvars, first_run, storage_up, seen, awaiting_upload, vc_buttons,
                   locked_matches, prompts>>
    /\ IF ~is_admin(a)
       THEN Respond("yonadd", a, "NotAuthorized") /\ UNCHANGED <<dbvars, files, issued_ids>>
       ELSE IF q = "" \/ o1 = "" \/ o2 = ""
       THEN Respond("yonadd", a, "InvalidFormat") /\ UNCHANGED <<dbvars, files, issued_ids>>
       ELSE /\ yon_questions' = Put(yon_questions, question_id,
                                    [question |-> q, options |-> <<o1, o2>>])
            /\ issued_ids' = issued_ids \cup {question_id}
            /\ Respond("yonadd", a, "QuestionAdded")
            /\ UNCHANGED <<matches, squadvars, betvars, points,
                           yon_user_answers, answerers, yon_correct_answers>>
            /\ save_db

yona(a, qid, n) ==
    /\ Track(<<"yona", a, qid, n>>)
    /\ UNCHANGED <<variant, spamvars, first_run, storage_up, seen, awaiting_upload, vc_buttons,
                   issued_ids, locked_matches, prompts>>
    /\ IF ~is_admin(a)
       THEN Respond("yona", a, "NotAuthorized") /\ UNCHANGED <<dbvars, files>>
       ELSE IF ~Has(yon_questions, qid)
       THEN Respond("yona", a, "QuestionNotFound") /\ UNCHANGED <<dbvars, files>>
       ELSE IF n \notin {1, 2}
       THEN Respond("yona", a, "OptionRange") /\ UNCHANGED <<dbvars, files>>
       ELSE /\ yon_correct_answers' = Put(yon_correct_answers, qid, yon_questions[qid].options[n])
            /\ Respond("yona", a, "CorrectSet")
            /\ UNCHANGED <<matches, squadvars, betvars, points,
                           yon_questions, yon_user_answers, answerers>>
            /\ save_db

yonclear(a) ==
    /\ Track(<<"yonclear", a>>)
    /\ UNCHANGED <<variant, spamvars, first_run, storage_up, seen, awaiting_upload, vc_buttons,
                   issued_ids, locked_matches, prompts>>
    /\ IF ~is_admin(a)
       THEN Respond("yonclear", a, "NotAuthorized") /\ UNCHANGED <<dbvars, files>>
       ELSE /\ yon_questions' = EmptyDict
            /\ yon_user_answers' = EmptyDict
            /\ answerers' = <<>>
            /\ yon_correct_answers' = EmptyDict
            /\ Respond("yonclear", a, "QuestionsCleared")
            /\ UNCHANGED <<matches, squadvars, betvars, points>>
            /\ save_db

\* hostthis.py refuses a second answer of the same user; bot.py has no such test
answer_refused(u, qid) == variant = "hostthis" /\ Has(yon_user_answers, <<u, qid>>)

\* faulty variant: a question never counts as closed
is_closed_never(qid) == FALSE
\* db["yon_correct_answers"].get(qid) is truthy (an option text is never empty)
is_closed(qid) == Has(yon_correct_answers, qid)

yon_answer(u, qid, answer) ==
    /\ Track(<<"yon_answer", u, qid, answer>>)
    /\ UNCHANGED <<variant, spamvars, first_run, storage_up, seen, awaiting_upload, vc_buttons,
                   issued_ids, locked_matches, prompts>>
    /\ IF ~Has(yon_questions, qid)
       THEN Respond("yon_answer", u, "QuestionNotFound") /\ UNCHANGED <<dbvars, files>>
       ELSE IF answer_refused(u, qid)
       THEN Respond("yon_answer", u, "AlreadyAnswered") /\ UNCHANGED <<dbvars, files>>
       ELSE IF is_closed(qid)
       THEN Respond("yon_answer", u, "QuestionClosed") /\ UNCHANGED <<dbvars, files>>
       ELSE /\ yon_user_answers' = Put(yon_user_answers, <<u, qid>>, answer)
            /\ answerers' = IF In(u, answerers) THEN answerers ELSE Append(answerers, u)
            /\ Respond("yon_answer", u, "QuestionShown")
            /\ UNCHANGED <<matches, squadvars, betvars, points,
                           yon_questions, yon_correct_answers>>
            /\ save_db

(***************************************************************************)
(* Showing a question.  The keys of db["yon_questions"] are the strings    *)
(* str(n); sorted() orders them as strings, character by character.  The   *)
(* answer of display_yon_question carries the question shown and its       *)
(* Previous / Next buttons, each with the id its callback data names.      *)
(***************************************************************************)
RECURSIVE str(_)
\* str(n): the decimal digits of n, most significant first
str(n) == IF n < 10 THEN <<n>> ELSE Append(str(n \div 10), n % 10)

\* a < b for Python strings of digits
str_less(a, b) ==
    \E i \in 1..(Len(a) + 1) :
        /\ i <= Len(b)
        /\ \A j \in 1..(i - 1) : j <= Len(a) /\ a[j] = b[j]
        /\ i = Len(a) + 1 \/ (i <= Len(a) /\ a[i] < b[i])

\* sorted(db["yon_questions"].keys())
sorted_ids ==
    LET ids == DOMAIN yon_questions
        rank(k) == 1 + Cardinality({j \in ids : str_less(str(j), str(k))})
    IN [i \in 1..Cardinality(ids) |-> CHOOSE k \in ids : rank(k) = i]

\* question_ids.index(qid)
index(ids, qid) == CHOOSE i \in DOMAIN ids : ids[i] = qid

nav_buttons(qid) ==
    LET ids == sorted_ids
        i == index(ids, qid) IN
    (IF i > 1 THEN {<<"Previous", ids[i - 1]>>} ELSE {})
        \cup (IF i < Len(ids) THEN {<<"Next", ids[i + 1]>>} ELSE {})

display_yon_question(op, u, qid) ==
    IF ~Has(yon_questions, qid)
    THEN Respond(op, u, "QuestionNotFound")
    ELSE reply' = [op |-> op, to |-> u, text |-> "QuestionShown",
                   qid |-> qid, nav |-> nav_buttons(qid)]

yon(u) ==
    /\ Track(<<"yon", u>>)
    /\ UNCHANGED <<variant, spamvars, first_run, storage_up, seen, awaiting_upload, dbvars, files,
                   vc_buttons, issued_ids, locked_matches, prompts>>
    /\ IF DOMAIN yon_questions = {}
       THEN Respond("yon", u, "NoQuestions")
       ELSE display_yon_question("yon", u, sorted_ids[1])

yon_nav(u, qid) ==
    /\ Track(<<"yon_nav", u, qid>>)
    /\ UNCHANGED <<variant, spamvars, first_run, storage_up, seen, awaiting_upload, dbvars, files,
                   vc_buttons, issued_ids, locked_matches, prompts>>
    /\ display_yon_question("yon_nav", u, qid)

(***************************************************************************)
(* The process and its store.  A restart reads the document back from the  *)
(* store and starts with an empty locked_matches; messages already in the  *)
(* chats (Verify prompts, menus) keep their buttons.  The store going down  *)
(* and coming back is the environment's move.                              *)
(***************************************************************************)
restart ==
    /\ storage_up
    /\ Track(<<"restart">>)
    /\ matches' = load(disk).matches
    /\ user_teams' = load(disk).user_teams
    /\ points' = load(disk).points
    /\ amounts' = load(disk).amounts
    /\ yon_questions' = load(disk).yon_questions
    /\ yon_user_answers' = load(disk).yon_user_answers
    /\ answerers' = load(disk).answerers
    /\ yon_correct_answers' = load(disk).yon_correct_answers
    /\ pending_bets' = load(disk).pending_bets
    /\ captains' = load(disk).captains
    /\ vice_captains' = load(disk).vice_captains
    /\ locked_matches' = {}
    /\ Respond("restart", "adm", "Started")
    /\ awaiting_upload' = {}
    /\ user_command_counts' = EmptyDict
    /\ UNCHANGED <<variant, now, first_run, files, storage_up, seen, prompts, vc_buttons,
                   issued_ids>>

storage_fails ==
    /\ storage_up
    /\ storage_up' = FALSE
    /\ UNCHANGED <<variant, spamvars, first_run, dbvars, files, locked_matches, prompts, vc_buttons,
                   issued_ids, calls, seen, awaiting_upload, reply, script, steps>>

storage_recovers ==
    /\ ~storage_up
    /\ storage_up' = TRUE
    /\ UNCHANGED <<variant, spamvars, first_run, dbvars, files, locked_matches, prompts, vc_buttons,
                   issued_ids, calls, seen, awaiting_upload, reply, script, steps>>

(***************************************************************************)
(* Next-state relation of the exhaustive specification: the lock, squad    *)
(* and bet handlers for every input of the small sets.  A Verify click     *)
(* carries the callback data of a delivered prompt.  A squad click may     *)
(* name any player: the handlers do not look the name up in the roster,    *)
(* and the keyboard of an earlier roster stays clickable.                  *)
(***************************************************************************)
Next ==
    \/ \E a \in MainUsers, m \in MainMatches : addmatch(a, m)
    \/ \E a \in MainUsers, m \in MainMatches : removematch(a, m)
    \/ \E a \in MainUsers, m \in MainMatches : lock_match(a, m)
    \/ \E a \in MainUsers, m \in MainMatches : unlock_match(a, m)
    \/ \E a \in MainUsers : clear(a)
    \/ \E u \in MainSquadUsers, m \in MainMatches : create(u, m)
    \/ \E u \in MainSquadUsers, m \in MainMatches, t \in Teams, p \in Players :
           selectplayer(u, m, t, p)
    \/ \E u \in MainSquadUsers, m \in MainMatches, t \in Teams, p \in Players :
           removeplayer(u, m, p, t)
    \/ \E u \in MainSquadUsers, m \in MainMatches, p \in Players : selectcaptain(u, m, p)
    \/ \E u \in MainSquadUsers, m \in MainMatches, p \in Players : selectvc(u, m, p)
    \/ \E u \in MainSquadUsers, m \in MainMatches, r \in Rooms, sent \in BOOLEAN :
           room(u, m, r.room, r.amount, sent)
    \/ \E a \in MainUsers, pr \in prompts : verify_bet(a, pr[1], pr[2], pr[3])

Spec == Init /\ [][Next]_vars

(***************************************************************************)
(* Squads at the cap.  The squad of u1 for match A starts as the first 9,  *)
(* 10 or 11 names of a twelve-player roster (each reached by that many     *)
(* selectplayer clicks), and MaxCapSteps more select / remove clicks are    *)
(* made on it.                                                             *)
(***************************************************************************)
CapRoster == [teams |-> ("X" :> CapOrder), players |-> CapOrder]

InitCapSquad ==
    \E n \in (TeamCap - 2)..TeamCap :
        /\ variant \in Variants
        /\ matches = ("A" :> CapRoster)
        /\ user_teams = (<<"u1", "A">> :> SubSeq(CapOrder, 1, n))
        /\ captains = EmptyDict
        /\ vice_captains = EmptyDict
        /\ pending_bets = EmptyDict
        /\ amounts = EmptyDict
        /\ points = EmptyDict
        /\ yon_questions = EmptyDict
        /\ yon_user_answers = EmptyDict
        /\ answerers = <<>>
        /\ yon_correct_answers = EmptyDict
        /\ locked_matches = {}
        /\ prompts = {}
        /\ vc_buttons = {}
        /\ issued_ids = {}
        /\ disk = Doc
        /\ bak = AnyFile
        /\ user_command_counts = EmptyDict
        /\ now = 0
        /\ storage_up = TRUE
        /\ calls = <<>>
        /\ seen = Doc
        /\ awaiting_upload = {}
        /\ first_run = NoRun
        /\ reply = [op |-> "selectplayer", to |-> "u1", text |-> "PlayerKeyboard"]
        /\ script = -1
        /\ steps = 0

NextCap ==
    \/ \E p \in CapPlayers : steps < MaxCapSteps /\ selectplayer("u1", "A", "X", p)
    \/ \E p \in CapPlayers : steps < MaxCapSteps /\ removeplayer("u1", "A", p, "X")

SpecCap == InitCapSquad /\ [][NextCap]_vars

(***************************************************************************)
(* Two users, two matches.  The run starts either from the empty database, *)
(* at the head of the end-to-end scenario, or from a populated database:    *)
(* both matches with roster X = [P1, P2], a points entry, an answered and   *)
(* closed question, and for each (user, match) of a set of FrameFills the   *)
(* full trail of a squad with both roles, a verified Chotu bet and a *)
(* pending Rocket request; any set of matches locked afterwards.  Every     *)
(* handler is then open to every user; MaxOff bounds the operations made    *)
(* off the scenario.                                                       *)
(***************************************************************************)
FramePairs == {"u1", "u2"} \X Matches
\* which (user, match) pairs carry the full trail: none, one, one match of both
\* users, both matches of one user, all
FrameFills == { {}, {<<"u1", "A">>}, {<<"u1", "A">>, <<"u2", "A">>},
                {<<"u1", "A">>, <<"u1", "B">>}, FramePairs }
FrameRoster == [teams |-> ("X" :> <<"P1", "P2">>), players |-> <<"P1", "P2">>]
Chotu == [room |-> "Chotu", amount |-> 500]
Rocket == [room |-> "Rocket", amount |-> 2500]

InitScenario ==
    /\ variant \in Variants
    /\ EmptyDb
    /\ reply = [op |-> "start", to |-> "adm", text |-> "Started"]
    /\ script = 0
    /\ steps = 0

InitPopulated ==
    \E filled \in FrameFills, locked \in SUBSET Matches :
        /\ variant \in Variants
        /\ matches = [m \in Matches |-> FrameRoster]
        /\ user_teams = [k \in filled |-> <<"P1", "P2">>]
        /\ captains = [k \in filled |-> "P1"]
        /\ vice_captains = [k \in filled |-> "P2"]
        /\ amounts = [k \in filled |-> Chotu.amount]
        /\ pending_bets = [k \in filled |-> Rocket]
        /\ prompts = {<<k[1], k[2], r.amount>> : k \in filled, r \in Rooms}
        /\ vc_buttons = {<<k[1], k[2], p>> : k \in filled, p \in Players}
        /\ issued_ids = {1}
        /\ points = ("P1" :> 100)
        /\ yon_questions = (1 :> [question |-> "Will it rain?", options |-> <<"Yes", "No">>])
        /\ yon_user_answers = (<<"u1", 1>> :> "Yes")
        /\ answerers = <<"u1">>
        /\ yon_correct_answers = (1 :> "Yes")
        /\ locked_matches = locked
        /\ disk = Doc
        /\ bak = AnyFile
        /\ user_command_counts = EmptyDict
        /\ now = 0
        /\ storage_up = TRUE
        /\ calls = <<>>
        /\ seen = Doc
        /\ awaiting_upload = {}
        /\ first_run = NoRun
        /\ reply = [op |-> "start", to |-> "adm", text |-> "Started"]
        /\ script = -1
        /\ steps = 0

InitFrame == InitScenario \/ InitPopulated

\* an operation is open while the scenario is being followed or the budget is not spent
CanStep == steps < MaxOff \/ script >= 0
InBudget == steps' <= MaxOff

NextFrame ==
    \/ \E a \in Users, m \in Matches : CanStep /\ addmatch(a, m) /\ InBudget
    \/ \E a \in Users, m \in Matches : CanStep /\ removematch(a, m) /\ InBudget
    \/ \E a \in Users, m \in Matches, t \in Teams : CanStep /\ addteam(a, m, t) /\ InBudget
    \/ \E a \in Users, m \in Matches, t \in Teams : CanStep /\ removeteam(a, m, t) /\ InBudget
    \/ \E a \in Users, m \in Matches, t \in Teams, names \in NameLists :
           CanStep /\ addplayer(a, m, t, names) /\ InBudget
    \/ \E a \in Users, m \in Matches, t \in Teams : CanStep /\ resetplayers(a, m, t) /\ InBudget
    \/ \E a \in Users, m \in Matches : CanStep /\ lock_match(a, m) /\ InBudget
    \/ \E a \in Users, m \in Matches : CanStep /\ unlock_match(a, m) /\ InBudget
    \/ \E a \in Users : CanStep /\ clear(a) /\ InBudget
    \/ \E a \in Users, p \in Players, pts \in PointValues : CanStep /\ points_cmd(a, p, pts) /\ InBudget
    \/ \E u \in Users, m \in Matches : CanStep /\ create(u, m) /\ InBudget
    \/ \E u \in Users, m \in Matches, t \in Teams, p \in Players :
           CanStep /\ selectplayer(u, m, t, p) /\ InBudget
    \/ \E u \in Users, m \in Matches, t \in Teams, p \in Players :
           CanStep /\ removeplayer(u, m, p, t) /\ InBudget
    \/ \E u \in Users, m \in Matches, p \in Players : CanStep /\ selectcaptain(u, m, p) /\ InBudget
    \/ \E u \in Users, m \in Matches, p \in Players : CanStep /\ selectvc(u, m, p) /\ InBudget
    \/ \E u \in Users, m \in Matches, r \in Rooms, sent \in BOOLEAN :
           CanStep /\ room(u, m, r.room, r.amount, sent) /\ InBudget
    \/ \E a \in Users, pr \in prompts : CanStep /\ verify_bet(a, pr[1], pr[2], pr[3]) /\ InBudget
    \/ \E a \in Users, q \in QuestionTexts, o1, o2 \in OptionTexts :
           /\ Cardinality(DOMAIN yon_questions) < MaxQuestions
           /\ CanStep /\ yonadd(a, q, o1, o2) /\ InBudget
    \/ \E a \in Users, qid \in 1..MaxQuestions, n \in OptionNumbers : CanStep /\ yona(a, qid, n) /\ InBudget
    \/ \E a \in Users : CanStep /\ yonclear(a) /\ InBudget
    \/ \E u \in Users, qid \in 1..MaxQuestions, answer \in OptionTexts :
           CanStep /\ yon_answer(u, qid, answer) /\ InBudget

SpecFrame == InitFrame /\ [][NextFrame]_vars

(***************************************************************************)
(* The prediction questions alone, exhaustively: up to MaxAsked open     *)
(* questions with the options Yes / No, two answering users, and the admin  *)
(* commands open to everyone.  An answer click carries the callback data of *)
(* a button shown while the question was open; a question can be shown in   *)
(* several messages, so a button outlives the answer given through another. *)
(***************************************************************************)
Answerers == {"u1", "u2"}
\* who sends the question commands: the administrator and one ordinary user
Commanders == {"adm", "u1"}
\* questions open at a time in the exhaustive run
MaxAsked == 1

NextYon ==
    \/ \E a \in Commanders, q \in QuestionTexts :
           Cardinality(DOMAIN yon_questions) < MaxAsked /\ yonadd(a, q, "Yes", "No")
    \/ \E a \in Commanders, qid \in 1..MaxAsked, n \in OptionNumbers : yona(a, qid, n)
    \/ \E a \in Commanders : yonclear(a)
    \/ \E a \in Commanders : clear(a)
    \/ \E u \in Answerers, qid \in 1..MaxAsked, answer \in OptionTexts :
           yon_answer(u, qid, answer)

SpecYon == Init /\ [][NextYon]_vars

(***************************************************************************)
(* The squad builder alone, exhaustively, with the vice-captain menu: a    *)
(* selectvc:: click is one of the buttons a choosevc:: menu has rendered    *)
(* for that user and match.  The menu is rendered for a squad of two or     *)
(* more; its message stays in the chat, so its buttons can be clicked after *)
(* the squad or the captain has changed through another message.            *)
(***************************************************************************)
NextSquad ==
    \/ \E a \in MainUsers, m \in MainMatches : addmatch(a, m)
    \/ \E a \in MainUsers, m \in MainMatches : removematch(a, m)
    \/ \E a \in MainUsers, m \in MainMatches : lock_match(a, m)
    \/ \E a \in MainUsers, m \in MainMatches : unlock_match(a, m)
    \/ \E u \in MainSquadUsers, m \in MainMatches : create(u, m)
    \/ \E u \in MainSquadUsers, m \in MainMatches, t \in Teams, p \in Players :
           selectplayer(u, m, t, p)
    \/ \E u \in MainSquadUsers, m \in MainMatches, t \in Teams, p \in Players :
           removeplayer(u, m, p, t)
    \/ \E u \in MainSquadUsers, m \in MainMatches, p \in Players : selectcaptain(u, m, p)
    \/ \E u \in MainSquadUsers, m \in MainMatches : choosevc(u, m)
    \/ \E b \in vc_buttons : selectvc(b[1], b[2], b[3])

SpecSquad == Init /\ [][NextSquad]_vars

(***************************************************************************)
(* Persistence.  SpecStore: the catalog and squad handlers with a store    *)
(* that never fails, and restarts of the process.  SpecFault: the same     *)
(* with a store that can go down and come back.                            *)
(***************************************************************************)
NextStore ==
    \/ \E a \in MainUsers, m \in MainMatches : addmatch(a, m)
    \/ \E a \in MainUsers, m \in MainMatches : removematch(a, m)
    \/ \E a \in MainUsers, m \in MainMatches : lock_match(a, m)
    \/ \E a \in MainUsers, m \in MainMatches : unlock_match(a, m)
    \/ \E u \in MainSquadUsers, m \in MainMatches : create(u, m)
    \/ \E u \in MainSquadUsers, m \in MainMatches, t \in Teams, p \in Players :
           selectplayer(u, m, t, p)
    \/ \E u \in MainSquadUsers, m \in MainMatches, t \in Teams, p \in Players :
           removeplayer(u, m, p, t)
    \/ \E u \in MainSquadUsers, m \in MainMatches, p \in Players : selectcaptain(u, m, p)
    \/ restart

SpecStore == Init /\ [][NextStore]_vars

NextFault ==
    \/ NextStore
    \/ storage_fails
    \/ storage_recovers

SpecFault == Init /\ [][NextFault]_vars

(***************************************************************************)
(* Two callbacks in flight.  user_callback first awaits query.answer() and *)
(* only then reads query.data and runs its branch; the branch reads,       *)
(* validates, writes and saves without another await, and awaits again only *)
(* to send its answer.  Two callbacks received together therefore both wait *)
(* at query.answer(), and the event loop runs their bodies one after the    *)
(* other in either order.  The run starts with two such callbacks for the   *)
(* squad and the bet of u1 on match A; the loop resumes every ready         *)
(* coroutine, hence the weak fairness.                                      *)
(***************************************************************************)
RaceCalls ==
    {<<"selectplayer", "u1", "A", "X", p>> : p \in Players}
        \cup {<<"removeplayer", "u1", "A", p, "X">> : p \in Players}
        \cup {<<"selectcaptain", "u1", "A", p>> : p \in Players}
        \cup {<<"room", "u1", "A", r.room, r.amount, TRUE>> : r \in Rooms}
        \cup {<<"verify_bet", "adm", "u1", "A", r.amount>> : r \in Rooms}
RaceSquads == {<<>>, <<"P1">>, <<"P1", "P2">>}

InitRace ==
    \E c1 \in RaceCalls, c2 \in RaceCalls, squad \in RaceSquads, asked \in BOOLEAN :
        /\ variant \in Variants
        /\ matches = ("A" :> FrameRoster)
        /\ user_teams = (<<"u1", "A">> :> squad)
        /\ captains = EmptyDict
        /\ vice_captains = EmptyDict
        /\ amounts = EmptyDict
        /\ pending_bets = IF asked /\ squad # <<>> THEN (<<"u1", "A">> :> Chotu) ELSE EmptyDict
        /\ prompts = IF asked /\ squad # <<>> THEN {<<"u1", "A", Chotu.amount>>} ELSE {}
        /\ points = EmptyDict
        /\ yon_questions = EmptyDict
        /\ yon_user_answers = EmptyDict
        /\ answerers = <<>>
        /\ yon_correct_answers = EmptyDict
        /\ locked_matches = {}
        /\ vc_buttons = {}
        /\ issued_ids = {}
        /\ disk = Doc
        /\ bak = AnyFile
        /\ user_command_counts = EmptyDict
        /\ now = 0
        /\ storage_up = TRUE
        /\ calls = <<[call |-> c1, done |-> FALSE], [call |-> c2, done |-> FALSE]>>
        /\ seen = Doc
        /\ awaiting_upload = {}
        /\ first_run = NoRun
        /\ reply = [op |-> "start", to |-> "adm", text |-> "Started"]
        /\ script = -1
        /\ steps = -1

\* callback i still waits and carries the callback data of `op`
Ready(i, op) == ~calls[i].done /\ calls[i].call[1] = op

NextRace ==
    \/ \E i \in DOMAIN calls : Ready(i, "selectplayer") /\
           LET c == calls[i].call IN selectplayer(c[2], c[3], c[4], c[5])
    \/ \E i \in DOMAIN calls : Ready(i, "removeplayer") /\
           LET c == calls[i].call IN removeplayer(c[2], c[3], c[4], c[5])
    \/ \E i \in DOMAIN calls : Ready(i, "selectcaptain") /\
           LET c == calls[i].call IN selectcaptain(c[2], c[3], c[4])
    \/ \E i \in DOMAIN calls : Ready(i, "room") /\
           LET c == calls[i].call IN room(c[2], c[3], c[4], c[5], c[6])
    \/ \E i \in DOMAIN calls : Ready(i, "verify_bet") /\
           LET c == calls[i].call IN verify_bet(c[2], c[3], c[4], c[5])

SpecRace == InitRace /\ [][NextRace]_vars /\ WF_vars(NextRace)

(***************************************************************************)
(* Browsing the questions: between 1 and MaxShown questions, added one     *)
(* after the other by yonadd (ids 1..n); a user opens the list and clicks   *)
(* the Previous / Next buttons of the question shown to them.               *)
(***************************************************************************)
MaxShown == 11

InitNav ==
    \E n \in 1..MaxShown :
        /\ variant \in Variants
        /\ matches = EmptyDict
        /\ user_teams = EmptyDict
        /\ captains = EmptyDict
        /\ vice_captains = EmptyDict
        /\ pending_bets = EmptyDict
        /\ amounts = EmptyDict
        /\ points = EmptyDict
        /\ yon_questions = [i \in 1..n |-> [question |-> "Will it rain?", options |-> <<"Yes", "No">>]]
        /\ yon_user_answers = EmptyDict
        /\ answerers = <<>>
        /\ yon_correct_answers = EmptyDict
        /\ locked_matches = {}
        /\ prompts = {}
        /\ vc_buttons = {}
        /\ issued_ids = 1..n
        /\ disk = Doc
        /\ bak = AnyFile
        /\ user_command_counts = EmptyDict
        /\ now = 0
        /\ storage_up = TRUE
        /\ calls = <<>>
        /\ seen = Doc
        /\ awaiting_upload = {}
        /\ first_run = NoRun
        /\ reply = [op |-> "start", to |-> "adm", text |-> "Started"]
        /\ script = -1
        /\ steps = -1

\* a question is on screen for the user the last answer went to
Shown == reply.op \in {"yon", "yon_nav"} /\ reply.text = "QuestionShown"

NextNav ==
    \/ \E u \in Answerers : yon(u)
    \/ \E b \in (IF Shown THEN reply.nav ELSE {}) : yon_nav(reply.to, b[2])

SpecNav == InitNav /\ [][NextNav]_vars

(***************************************************************************)
(* Properties.                                                             *)
(***************************************************************************)
Pairs == Users \X Matches
Amounts == {r.amount : r \in Rooms}

\* C1: in every reachable state every squad holds at most TeamCap (11)
\* players and holds no player twice.
SquadWithinCap ==
    \A k \in DOMAIN user_teams :
        LET squad == user_teams[k] IN
        /\ Len(squad) <= TeamCap
        /\ \A i, j \in DOMAIN squad : i # j => squad[i] # squad[j]

\* a twelfth player has just been refused on a squad of eleven
TwelfthRefused ==
    /\ reply.op = "selectplayer" /\ reply.text = "TeamFull"
    /\ Len(user_teams[<<"u1", "A">>]) = TeamCap
    /\ steps >= 1

\* C9: the end-to-end scenario, followed call by call from the empty
\* database, ends with VerifiedBet(u1, A) = 2500 and no PendingBet(u1, A);
\* and every successful verifyBet sets VerifiedBet(user, match) to its amount
\* and deletes PendingBet(user, match).
ScenarioDone == script = Len(Script)

ScenarioEndsVerified ==
    /\ [](ScenarioDone =>
              /\ Has(amounts, <<"u1", "A">>) /\ amounts[<<"u1", "A">>] = 2500
              /\ ~Has(pending_bets, <<"u1", "A">>))
    /\ [][ reply'.op = "verify_bet" /\ reply'.text = "BetVerified" =>
               \A u \in Users, m \in Matches, amt \in Amounts :
                   verify_bet(reply'.to, u, m, amt) =>
                       /\ Has(amounts', <<u, m>>) /\ amounts'[<<u, m>>] = amt
                       /\ ~Has(pending_bets', <<u, m>>) ]_vars

\* the scenario has been followed to its last call, with the squad and roles it built
ScenarioCompleted ==
    /\ ScenarioDone
    /\ reply = [op |-> "verify_bet", to |-> "adm", text |-> "BetVerified"]
    /\ user_teams = (<<"u1", "A">> :> <<"P1", "P2">>)
    /\ captains = (<<"u1", "A">> :> "P1")
    /\ vice_captains = (<<"u1", "A">> :> "P2")

\* C10: a removeMatch that succeeds on match m removes m, its lock flag and,
\* for every user, the squad, pending bet, verified bet, captain and
\* vice-captain of m; every entry of another match keeps its value, and
\* points, questions, answers and correct answers are unchanged.
GoneFor(d, m) == \A k \in DOMAIN d : k[2] # m
KeptElsewhere(before, after, m) ==
    \A k \in DOMAIN before : k[2] # m => Has(after, k) /\ after[k] = before[k]
NothingNew(before, after) == DOMAIN after \subseteq DOMAIN before

RemoveMatchCascades ==
    [][ reply'.op = "removematch" /\ reply'.text = "MatchRemoved" =>
            \A m \in Matches :
                removematch(reply'.to, m) =>
                    /\ Has(matches, m) /\ ~Has(matches', m)
                    /\ \A o \in Matches \ {m} :
                           /\ Has(matches', o) <=> Has(matches, o)
                           /\ Has(matches, o) => matches'[o] = matches[o]
                           /\ o \in locked_matches' <=> o \in locked_matches
                    /\ m \notin locked_matches'
                    /\ GoneFor(user_teams', m) /\ KeptElsewhere(user_teams, user_teams', m)
                    /\ GoneFor(pending_bets', m) /\ KeptElsewhere(pending_bets, pending_bets', m)
                    /\ GoneFor(amounts', m) /\ KeptElsewhere(amounts, amounts', m)
                    /\ GoneFor(captains', m) /\ KeptElsewhere(captains, captains', m)
                    /\ GoneFor(vice_captains', m) /\ KeptElsewhere(vice_captains, vice_captains', m)
                    /\ NothingNew(user_teams, user_teams') /\ NothingNew(pending_bets, pending_bets')
                    /\ NothingNew(amounts, amounts') /\ NothingNew(captains, captains')
                    /\ NothingNew(vice_captains, vice_captains')
                    /\ UNCHANGED <<points, yonvars>> ]_vars

\* match A has just been removed with its lock, under two users who keep everything of match B
MatchRemovedOthersKept ==
    /\ reply.op = "removematch" /\ reply.text = "MatchRemoved"
    /\ DOMAIN matches = {"B"}
    /\ locked_matches = {"B"}
    /\ DOMAIN user_teams = {<<"u1", "B">>, <<"u2", "B">>}
    /\ DOMAIN pending_bets = DOMAIN user_teams /\ DOMAIN amounts = DOMAIN user_teams
    /\ DOMAIN captains = DOMAIN user_teams /\ DOMAIN vice_captains = DOMAIN user_teams
    /\ Has(points, "P1") /\ Has(yon_user_answers, <<"u1", 1>>)

\* C2: in every reachable state the captain and the vice-captain of a squad,
\* when both are set, are different players.
CaptainDiffersFromVice ==
    \A k \in Pairs :
        Has(captains, k) /\ Has(vice_captains, k) => captains[k] # vice_captains[k]

\* C3: in every reachable state the captain, when set, is one of the squad's
\* players, and so is the vice-captain.
RolesAreSquadMembers ==
    \A k \in Pairs :
        /\ Has(captains, k) => Has(user_teams, k) /\ In(captains[k], user_teams[k])
        /\ Has(vice_captains, k) => Has(user_teams, k) /\ In(vice_captains[k], user_teams[k])

\* a removeplayer has just left a one-player squad with its vice-captain and no captain
RoleHolderRemoved ==
    /\ reply.op = "removeplayer"
    /\ Has(user_teams, <<"u1", "A">>) /\ user_teams[<<"u1", "A">>] = <<"P2">>
    /\ ~Has(captains, <<"u1", "A">>)
    /\ Has(vice_captains, <<"u1", "A">>)

\* the answer of a handler that met the lock: nothing of the squads or bets moves
RefusedLocked == reply'.text = "MatchLocked" /\ UNCHANGED <<squadvars, betvars>>

\* the step is one of the five squad operations or a bet request on match m, and is refused
SquadOrRequestRefused(m) ==
    LET u == reply'.to IN
    /\ reply'.op = "create" /\ create(u, m) => RefusedLocked
    /\ reply'.op = "selectplayer" =>
           \A t \in Teams, p \in Players : selectplayer(u, m, t, p) => RefusedLocked
    /\ reply'.op = "removeplayer" =>
           \A t \in Teams, p \in Players : removeplayer(u, m, p, t) => RefusedLocked
    /\ reply'.op = "selectcaptain" =>
           \A p \in Players : selectcaptain(u, m, p) => RefusedLocked
    /\ reply'.op = "selectvc" =>
           \A p \in Players : selectvc(u, m, p) => RefusedLocked
    /\ reply'.op = "room" =>
           \A r \in Rooms, sent \in BOOLEAN : room(u, m, r.room, r.amount, sent) => RefusedLocked

\* lock and unlock move nothing but the flag of the match they name
LockMovesOnlyTheFlag ==
    /\ reply'.op \in {"lock_match", "unlock_match"} => UNCHANGED <<dbvars, prompts>>
    /\ reply'.text = "Locked" =>
           \A m \in Matches : lock_match(reply'.to, m) => locked_matches' = locked_matches \cup {m}
    /\ reply'.text = "Unlocked" =>
           \A m \in Matches : unlock_match(reply'.to, m) => locked_matches' = locked_matches \ {m}

\* C4 (as amended): while a match is locked, createSquad, selectPlayer,
\* removePlayer, setCaptain, setViceCaptain and requestBet on it are answered
\* MatchLocked and leave squads, roles, pending and verified bets unchanged;
\* lock and unlock change only the flag, so unlocking restores the state
\* the operations saw before the lock.  verifyBet is not gated by the lock.
LockGatesSquadAndRequest ==
    [][ /\ \A m \in Matches : m \in locked_matches => SquadOrRequestRefused(m)
        /\ LockMovesOnlyTheFlag ]_vars

\* C4 (as stated): the same, with verifyBet refused on a locked match too.
LockGatesVerifyToo ==
    [][ /\ \A m \in Matches : m \in locked_matches =>
               /\ SquadOrRequestRefused(m)
               /\ reply'.op = "verify_bet" =>
                      \A u \in Users, amt \in Amounts :
                          verify_bet(reply'.to, u, m, amt) => RefusedLocked
        /\ LockMovesOnlyTheFlag ]_vars

\* a squad operation has just been refused on a locked match that holds a squad
LockedRefusalSeen ==
    /\ reply.text = "MatchLocked"
    /\ reply.op = "selectplayer"
    /\ "A" \in locked_matches
    /\ Has(user_teams, <<"u1", "A">>) /\ Len(user_teams[<<"u1", "A">>]) = 1
    /\ Has(pending_bets, <<"u1", "A">>)

\* C5: a verifyBet that succeeds found a pending request of the same amount,
\* and one whose amount differs from the pending amount is answered BetNotFound
\* and changes neither PendingBet nor VerifiedBet.
VerifyRequiresMatchingAmount ==
    [][ reply'.op = "verify_bet" =>
            \A u \in Users, m \in Matches, amt \in Amounts :
                verify_bet(reply'.to, u, m, amt) =>
                    /\ reply'.text = "BetVerified" =>
                           Has(pending_bets, <<u, m>>) /\ pending_bets[<<u, m>>].amount = amt
                    /\ Has(pending_bets, <<u, m>>) /\ pending_bets[<<u, m>>].amount # amt =>
                           reply'.text \in {"BetNotFound", "NotAuthorized"} /\ UNCHANGED betvars ]_vars

\* C6: a successful verifyBet leaves no pending request for (user, match); a
\* pending request appears only through requestBet; and an administrator's
\* verifyBet without a pending request is answered BetNotFound and changes
\* neither PendingBet nor VerifiedBet.  So a second verifyBet with the same
\* arguments, with no requestBet in between, fails.
VerifyAtMostOnce ==
    [][ /\ reply'.op = "verify_bet" =>
               \A u \in Users, m \in Matches, amt \in Amounts :
                   verify_bet(reply'.to, u, m, amt) =>
                       /\ reply'.text = "BetVerified" => ~Has(pending_bets', <<u, m>>)
                       /\ reply'.to \in ADMIN_IDS /\ ~Has(pending_bets, <<u, m>>) =>
                              reply'.text = "BetNotFound" /\ UNCHANGED betvars
        /\ \A k \in Pairs :
            ~Has(pending_bets, k) /\ Has(pending_bets', k) => reply'.op = "room" ]_vars

\* a Verify click has just been answered BetNotFound for a bet already verified
SecondVerifyRefused ==
    /\ reply.op = "verify_bet" /\ reply.text = "BetNotFound"
    /\ Has(amounts, <<"u1", "A">>)
    /\ ~Has(pending_bets, <<"u1", "A">>)

\* C7: an entry of VerifiedBet is created or changed only by a successful
\* verifyBet of an administrator; a verifyBet of anyone else is answered
\* Unauthorized and changes neither PendingBet nor VerifiedBet.
OnlyAdminVerifies ==
    [][ /\ \A k \in Pairs :
            Has(amounts', k) /\ (~Has(amounts, k) \/ amounts[k] # amounts'[k]) =>
                reply'.op = "verify_bet" /\ reply'.text = "BetVerified" /\ reply'.to \in ADMIN_IDS
        /\ reply'.op = "verify_bet" /\ reply'.to \notin ADMIN_IDS =>
               \A u \in Users, m \in Matches, amt \in Amounts :
                   verify_bet(reply'.to, u, m, amt) =>
                       reply'.text = "NotAuthorized" /\ UNCHANGED betvars ]_vars

\* a Verify click of a non-administrator has just been refused while a request is pending
StrangerRefused ==
    /\ reply.op = "verify_bet" /\ reply.text = "NotAuthorized"
    /\ reply.to \notin ADMIN_IDS
    /\ Has(pending_bets, <<"u1", "A">>)
    /\ Has(amounts, <<"u1", "A">>)

AnswerWriteOnce ==
    [][ reply'.op = "yon_answer" =>
            \A qid \in 1..MaxAsked, answer \in OptionTexts :
                LET u == reply'.to IN
                yon_answer(u, qid, answer) /\ Has(yon_user_answers, <<u, qid>>) =>
                    /\ reply'.text \in {"AlreadyAnswered", "QuestionClosed"}
                    /\ yon_user_answers' = yon_user_answers ]_vars

\* C12: an answer click on a question whose correct answer is set is rejected
\* and leaves the stored answers unchanged; and no step of any handler adds
\* or changes an answer of a question whose correct answer is set.
AnswerKeys == Users \X (1..MaxAsked)

ClosedQuestionTakesNoAnswer ==
    [][ /\ reply'.op = "yon_answer" =>
               \A qid \in 1..MaxAsked, answer \in OptionTexts :
                   Has(yon_correct_answers, qid) /\ yon_answer(reply'.to, qid, answer) =>
                       /\ reply'.text \in {"AlreadyAnswered", "QuestionClosed"}
                       /\ yon_user_answers' = yon_user_answers
        /\ yon_user_answers' # yon_user_answers =>
               \A k \in AnswerKeys :
                   /\ Has(yon_user_answers', k)
                   /\ ~Has(yon_user_answers, k) \/ yon_user_answers[k] # yon_user_answers'[k]
                   => ~Has(yon_correct_answers, k[2]) ]_vars

\* a first answer of u1 has just been refused on a closed question that u2 answered in time
ClosedAnswerRefused ==
    /\ reply = [op |-> "yon_answer", to |-> "u1", text |-> "QuestionClosed"]
    /\ Has(yon_correct_answers, 1)
    /\ ~Has(yon_user_answers, <<"u1", 1>>)
    /\ Has(yon_user_answers, <<"u2", 1>>)

\* C13: a setCorrectAnswer on a question whose correct answer is already set
\* leaves the correct answers unchanged, whichever option it names.
CorrectAnswerWriteOnce ==
    [][ reply'.op = "yona" =>
            \A qid \in 1..MaxAsked, n \in OptionNumbers :
                yona(reply'.to, qid, n) /\ Has(yon_correct_answers, qid) =>
                    yon_correct_answers' = yon_correct_answers ]_vars

\* C14: the identifier a successful addQuestion assigns has never been
\* assigned before, whatever questions were cleared in between.
IdsNeverReused ==
    [][ reply'.op = "yonadd" /\ reply'.text = "QuestionAdded" =>
            \A qid \in DOMAIN yon_questions' :
                ~Has(yon_questions, qid) => qid \notin issued_ids ]_vars

\* C15: a setViceCaptain click that names the current captain of the squad,
\* on an existing unlocked match, is answered with the captain conflict and
\* leaves the vice-captain as it was.
ViceCaptainClickOnCaptainFails ==
    [][ reply'.op = "selectvc" =>
            \A m \in Matches, p \in Players :
                LET k == <<reply'.to, m>> IN
                /\ selectvc(reply'.to, m, p)
                /\ Has(matches, m) /\ m \notin locked_matches
                /\ Has(captains, k) /\ captains[k] = p
                => reply'.text = "AlreadyCaptain" /\ vice_captains' = vice_captains ]_vars

\* C16: a setViceCaptain click on a squad of fewer than two players, on an
\* existing unlocked match, is refused and leaves the vice-captain as it was.
ViceCaptainNeedsTwoPlayers ==
    [][ reply'.op = "selectvc" =>
            \A m \in Matches, p \in Players :
                /\ selectvc(reply'.to, m, p)
                /\ Has(matches, m) /\ m \notin locked_matches
                /\ Len(current_team(reply'.to, m)) < 2
                => /\ reply'.text \in {"NeedTwoPlayers", "PlayerNotInTeam", "AlreadyCaptain"}
                   /\ vice_captains' = vice_captains ]_vars

\* C17: on an existing unlocked match, setCaptain(p) with p outside the
\* user's squad is answered PlayerNotInSquad and changes nothing; with p in
\* the squad it sets the captain of (user, match) to p and changes nothing else.
SetCaptainContract ==
    [][ reply'.op = "selectcaptain" =>
            \A m \in Matches, p \in Players :
                LET k == <<reply'.to, m>> IN
                selectcaptain(reply'.to, m, p) /\ Has(matches, m) /\ m \notin locked_matches =>
                    IF Has(user_teams, k) /\ p \in Range(user_teams[k])
                    THEN /\ Has(captains', k) /\ captains'[k] = p
                         /\ \A o \in Pairs \ {k} :
                                /\ Has(captains', o) <=> Has(captains, o)
                                /\ Has(captains, o) => captains'[o] = captains[o]
                         /\ UNCHANGED <<matches, user_teams, vice_captains, betvars,
                                        points, yonvars, locked_matches>>
                    ELSE /\ reply'.text = "PlayerNotInTeam"
                         /\ UNCHANGED <<dbvars, locked_matches>> ]_vars

\* a player outside the squad has just been refused as captain; the captain in place stays
OutsiderRefusedAsCaptain ==
    /\ reply = [op |-> "selectcaptain", to |-> "u1", text |-> "PlayerNotInTeam"]
    /\ Has(user_teams, <<"u1", "A">>) /\ user_teams[<<"u1", "A">>] = <<"P1">>
    /\ Has(captains, <<"u1", "A">>) /\ captains[<<"u1", "A">>] = "P1"

\* C18: selectPlayer(p) on an existing, unlocked match adds p when p is not
\* in the squad and the squad holds fewer than TeamCap (11) players; on a
\* squad of TeamCap players a new p is rejected with TeamFull and nothing
\* changes; an already selected p changes nothing and is not answered with
\* TeamFull, full squad or not.
SelectPlayerContract ==
    [][\A p \in CapPlayers :
          LET k == <<"u1", "A">>
              team == current_team("u1", "A") IN
          (reply'.op = "selectplayer" /\ reply'.to = "u1"
             /\ Has(matches, "A") /\ "A" \notin locked_matches
             /\ selectplayer("u1", "A", "X", p))
          => IF p \in Range(team)
             THEN user_teams'[k] = team /\ reply'.text # "TeamFull"
             ELSE IF Len(team) < TeamCap
             THEN user_teams'[k] = Append(team, p) /\ reply'.text # "TeamFull"
             ELSE user_teams'[k] = team /\ reply'.text = "TeamFull"]_vars

\* C19: on an existing unlocked match, removePlayer(p) with p in the squad
\* leaves the other players in their order, clears the captain exactly when
\* p was captain and the vice-captain exactly when p was vice-captain, and
\* changes nothing else; with p outside the squad it changes nothing.
RoleAfterRemoval(roles, k, p) ==
    IF Has(roles, k) /\ roles[k] = p
    THEN [x \in (DOMAIN roles) \ {k} |-> roles[x]]
    ELSE roles

RemovePlayerContract ==
    [][ reply'.op = "removeplayer" =>
            \A m \in Matches, p \in Players, t \in Teams :
                LET k == <<reply'.to, m>> IN
                removeplayer(reply'.to, m, p, t) /\ Has(matches, m) /\ m \notin locked_matches =>
                    /\ IF Has(user_teams, k) /\ p \in Range(user_teams[k])
                       THEN /\ Has(user_teams', k)
                            /\ user_teams'[k] = SelectSeq(user_teams[k], LAMBDA q : q # p)
                            /\ \A o \in Pairs \ {k} :
                                   /\ Has(user_teams', o) <=> Has(user_teams, o)
                                   /\ Has(user_teams, o) => user_teams'[o] = user_teams[o]
                            /\ captains' = RoleAfterRemoval(captains, k, p)
                            /\ vice_captains' = RoleAfterRemoval(vice_captains, k, p)
                       ELSE UNCHANGED squadvars
                    /\ UNCHANGED <<matches, betvars, points, yonvars, locked_matches>> ]_vars

\* the vice-captain has just been removed from a squad whose captain stays in place
ViceCaptainRemovedCaptainKept ==
    /\ reply.op = "removeplayer"
    /\ Has(user_teams, <<"u1", "A">>) /\ user_teams[<<"u1", "A">>] = <<"P1">>
    /\ Has(captains, <<"u1", "A">>) /\ captains[<<"u1", "A">>] = "P1"
    /\ ~Has(vice_captains, <<"u1", "A">>)
    /\ <<"u1", "A", "P2">> \in vc_buttons

\* The squad of k as the state machine sees it.
NoRoles(k) == ~Has(captains, k) /\ ~Has(vice_captains, k)
HoldsRole(roles, k) == Has(roles, k) /\ Has(user_teams, k) /\ roles[k] \in Range(user_teams[k])
NoSquad(k) == ~Has(user_teams, k) /\ NoRoles(k)
Selecting(k) == Has(user_teams, k) /\ user_teams[k] = <<>> /\ NoRoles(k)
HasPlayers(k) == Has(user_teams, k) /\ user_teams[k] # <<>> /\ NoRoles(k)
HasCaptain(k) == HoldsRole(captains, k) /\ ~Has(vice_captains, k)
HasViceCaptain(k) == HoldsRole(vice_captains, k) /\ ~Has(captains, k)
HasCaptainAndVC(k) == HoldsRole(captains, k) /\ HoldsRole(vice_captains, k)

\* C20 (as stated): every squad is in one of the five listed states; in
\* particular no vice-captain is set while the captain is unset.
SquadStateIsListed ==
    \A k \in Pairs :
        NoSquad(k) \/ Selecting(k) \/ HasPlayers(k) \/ HasCaptain(k) \/ HasCaptainAndVC(k)

\* the entry of k is the same before and after
SameAt(before, after, k) ==
    /\ Has(after, k) <=> Has(before, k)
    /\ Has(before, k) => after[k] = before[k]

\* how one step may move the squad of k
SquadMove(k) ==
    LET mine == reply'.to = k[1] IN
    \/ /\ SameAt(user_teams, user_teams', k) /\ SameAt(captains, captains', k)
       /\ SameAt(vice_captains, vice_captains', k)
    \/ /\ reply'.op \in {"removematch", "clear"}
       /\ ~Has(user_teams', k) /\ ~Has(captains', k) /\ ~Has(vice_captains', k)
    \/ /\ reply'.op = "create" /\ mine
       /\ ~Has(user_teams, k) /\ Has(user_teams', k) /\ user_teams'[k] = <<>>
       /\ SameAt(captains, captains', k) /\ SameAt(vice_captains, vice_captains', k)
    \/ /\ reply'.op = "selectplayer" /\ mine
       /\ Has(user_teams', k)
       /\ \/ ~Has(user_teams, k) /\ Len(user_teams'[k]) <= 1
          \/ Has(user_teams, k) /\ \E p \in Players : user_teams'[k] = Append(user_teams[k], p)
          \/ Has(user_teams, k) /\ user_teams'[k] = user_teams[k]
       /\ SameAt(captains, captains', k) /\ SameAt(vice_captains, vice_captains', k)
    \/ /\ reply'.op = "removeplayer" /\ mine
       /\ Has(user_teams, k) /\ Has(user_teams', k)
       /\ Len(user_teams'[k]) = Len(user_teams[k]) - 1
       /\ Range(user_teams'[k]) \subseteq Range(user_teams[k])
       /\ Has(captains', k) => Has(captains, k) /\ captains'[k] = captains[k]
       /\ Has(vice_captains', k) => Has(vice_captains, k) /\ vice_captains'[k] = vice_captains[k]
    \/ /\ reply'.op = "selectcaptain" /\ mine
       /\ Has(captains', k)
       /\ SameAt(user_teams, user_teams', k) /\ SameAt(vice_captains, vice_captains', k)
    \/ /\ reply'.op = "selectvc" /\ mine
       /\ Has(vice_captains', k)
       /\ SameAt(user_teams, user_teams', k) /\ SameAt(captains, captains', k)

\* C20 (as amended): every squad is in one of the five listed states or in
\* HasViceCaptain (players and a vice-captain, no captain): the two roles are
\* set independently of each other, each held by a player of the squad; and
\* a squad moves only by createSquad, selectPlayer, removePlayer, setCaptain
\* and setViceCaptain of its user, each touching only its own part, or is
\* dropped by removeMatch / clear.
SquadStatesAndMoves ==
    /\ [](\A k \in Pairs :
              \/ NoSquad(k) \/ Selecting(k) \/ HasPlayers(k)
              \/ HasCaptain(k) \/ HasViceCaptain(k) \/ HasCaptainAndVC(k))
    /\ [][\A k \in Pairs : SquadMove(k)]_vars

\* a vice-captain has just been chosen for a two-player squad that has no captain
ViceCaptainWithoutCaptain ==
    /\ reply.op = "selectvc"
    /\ HasViceCaptain(<<"u1", "A">>)
    /\ Len(user_teams[<<"u1", "A">>]) = 2

\* C21: with a store that never fails, the persisted document equals the
\* in-memory document after every operation, and a restart changes neither
\* the document nor the locks: nothing a handler reported as done is lost.
SuccessIsDurable ==
    /\ [](disk = Doc)
    /\ [][reply'.op = "restart" => UNCHANGED <<dbvars, locked_matches>>]_vars

\* C22: while the store is down, a handler that has to write leaves the
\* in-memory document as it was and does not answer with its success text
\* (create_ never writes and is left out).
SavedReplies == {"MatchAdded", "MatchRemoved", "MatchMenu"}

FailedWriteChangesNothing ==
    [][ ~storage_up /\ ~storage_up' /\ reply'.op # "create"
            => UNCHANGED dbvars /\ (reply' # reply => reply'.text \notin SavedReplies) ]_vars

\* Two callbacks received together: what every serial order of their bodies
\* leaves behind, read off the callback data and the document they were
\* received on.
Received(op) == {calls[i].call : i \in {j \in DOMAIN calls : calls[j].call[1] = op}}
Finished == Len(calls) = 2 /\ \A i \in DOMAIN calls : calls[i].done
Selected(p) == <<"selectplayer", "u1", "A", "X", p>> \in Received("selectplayer")
Removed(p) == <<"removeplayer", "u1", "A", p, "X">> \in Received("removeplayer")
SquadSeen == seen.user_teams[<<"u1", "A">>]

SerialOutcome ==
    LET k == <<"u1", "A">> IN
    /\ Has(user_teams, k)
    /\ Cardinality(Range(user_teams[k])) = Len(user_teams[k])
    /\ \A p \in Players :
           /\ (Selected(p) \/ p \in Range(SquadSeen)) /\ ~Removed(p)
                  => p \in Range(user_teams[k])
           /\ Removed(p) /\ ~Selected(p) => p \notin Range(user_teams[k])
           /\ ~Selected(p) /\ p \notin Range(SquadSeen) => p \notin Range(user_teams[k])
    /\ Received("selectcaptain") # {} /\ Received("removeplayer") = {}
           /\ (\A c \in Received("selectcaptain") : c[4] \in Range(SquadSeen))
           => Has(captains, k) /\ \E c \in Received("selectcaptain") : captains[k] = c[4]
    /\ Received("selectcaptain") = {} => ~Has(captains, k)
    /\ Received("verify_bet") # {} /\ Received("room") = {} /\ Has(seen.pending_bets, k)
           => /\ ~Has(pending_bets, k)
              /\ Has(amounts, k) /\ \E c \in Received("verify_bet") : amounts[k] = c[5]
    /\ Received("room") # {} /\ Received("verify_bet") = {} /\ Received("removeplayer") = {}
           /\ SquadSeen # <<>>
           => Has(pending_bets, k) /\ \E c \in Received("room") :
                  pending_bets[k] = [room |-> c[4], amount |-> c[5]]
    /\ Received("room") = {} => pending_bets \in {seen.pending_bets, EmptyDict}
    /\ disk = Doc
    /\ bak = AnyFile
    /\ user_command_counts = EmptyDict
    /\ now = 0

NavigationIsNumeric ==
    Shown =>
        LET n == Cardinality(DOMAIN yon_questions) IN
        reply.nav = (IF reply.qid > 1 THEN {<<"Previous", reply.qid - 1>>} ELSE {})
                        \cup (IF reply.qid < n THEN {<<"Next", reply.qid + 1>>} ELSE {})

(***************************************************************************)
(* Prediction ranking.  yonrankings walks db["yon_user_answers"] in its    *)
(* iteration order (the order in which users gave their first answer),     *)
(* counts for each user the answers that equal the recorded correct answer *)
(* after both are lower-cased, sorts the pairs by count, largest first,    *)
(* and answers with the first ten.  The answer carries the board as the    *)
(* sequence of its lines <<user, count>>.                                  *)
(***************************************************************************)
\* faulty variant: the strings are compared as they are
lower_exact(s) == s
\* str.lower() on the option texts in use
lower(s) == CASE s = "Yes" -> "yes" [] s = "No" -> "no" [] OTHER -> s

\* the inner loop: answers of uid that match a recorded, non-empty correct answer
total(uid) ==
    Cardinality({k \in DOMAIN yon_user_answers :
                    /\ k[1] = uid
                    /\ Has(yon_correct_answers, k[2])
                    /\ yon_correct_answers[k[2]] # ""
                    /\ lower(yon_user_answers[k]) = lower(yon_correct_answers[k[2]])})

\* scores.items(): one pair per user, in iteration order
scores == [i \in 1..Len(answerers) |-> <<answerers[i], total(answerers[i])>>]

\* faulty variant: a pair goes in front of the pairs with the same count
ahead_strict(board, pts) == Cardinality({i \in 1..Len(board) : board[i][2] > pts})
\* how many pairs of a sorted board stay in front of a new pair counting pts
ahead(board, pts) == Cardinality({i \in 1..Len(board) : board[i][2] >= pts})

RECURSIVE sorted_desc(_)
\* sorted(items, key=count, reverse=True): a stable sort, so a pair goes
\* behind the earlier pairs with the same count
sorted_desc(items) ==
    IF items = <<>> THEN <<>>
    ELSE LET board == sorted_desc(SubSeq(items, 1, Len(items) - 1))
             x == items[Len(items)]
             k == ahead(board, x[2])
         IN SubSeq(board, 1, k) \o <<x>> \o SubSeq(board, k + 1, Len(board))

\* the slice [:10]
TopN == 10
\* faulty variant: the whole list
top_all(items) == items
top(items) == SubSeq(items, 1, IF Len(items) < TopN THEN Len(items) ELSE TopN)

sorted_scores == top(sorted_desc(scores))

yonrankings(u) ==
    /\ Track(<<"yonrankings", u>>)
    /\ reply' = [op |-> "yonrankings", to |-> u,
                 text |-> IF sorted_scores = <<>> THEN "NoRankings" ELSE "Rankings",
                 board |-> sorted_scores]
    /\ UNCHANGED <<variant, spamvars, first_run, storage_up, seen, awaiting_upload, vc_buttons,
                   issued_ids, locked_matches, prompts, dbvars, files>>

(***************************************************************************)
(* Scores: two questions, one whose options differ only in case and one    *)
(* with the options Yes / No; two users answer through the buttons of the  *)
(* question, the administrator records correct answers, and anyone asks    *)
(* for the ranking.                                                        *)
(***************************************************************************)
ScoreOptions == {<<"Yes", "yes">>, <<"Yes", "No">>}
ScoreQuestions == {1, 2}

NextScore ==
    \/ \E o \in ScoreOptions :
           question_id \in ScoreQuestions /\ yonadd("adm", "Will it rain?", o[1], o[2])
    \/ \E qid \in ScoreQuestions, n \in {1, 2} : Has(yon_questions, qid) /\ yona("adm", qid, n)
    \/ \E u \in Answerers, qid \in ScoreQuestions, n \in {1, 2} :
           Has(yon_questions, qid) /\ yon_answer(u, qid, yon_questions[qid].options[n])
    \/ \E u \in Answerers : yonrankings(u)

SpecScore == Init /\ [][NextScore]_vars

\* the option texts that differ only in letter case
CaseClasses == {{"Yes", "yes"}, {"No", "no"}}
SameLetters(a, b) == a = b \/ \E c \in CaseClasses : a \in c /\ b \in c
\* the answers of u that equal the recorded correct answer of their question
Correct(u) == {qid \in DOMAIN yon_questions :
                  /\ Has(yon_user_answers, <<u, qid>>)
                  /\ Has(yon_correct_answers, qid)
                  /\ SameLetters(yon_user_answers[<<u, qid>>], yon_correct_answers[qid])}
Ranked == reply.op = "yonrankings"
Answered(u) == \E k \in DOMAIN yon_user_answers : k[1] = u

\* C25: the ranking shows for every user who answered the number of that
\* user's answers that equal the recorded correct answer of their question,
\* letter case ignored; a question with no recorded correct answer counts 0.
ScoreCountsCorrectAnswers ==
    Ranked =>
        /\ \A i \in 1..Len(reply.board) :
               reply.board[i][2] = Cardinality(Correct(reply.board[i][1]))
        /\ \A u \in Answerers :
               Answered(u) => \E i \in 1..Len(reply.board) : reply.board[i][1] = u

\* a ranking that counts "yes" against the correct answer "Yes", next to an
\* answer to a question with no recorded correct answer
LowerCaseAnswerCounted ==
    /\ Ranked
    /\ \E i \in 1..Len(reply.board) :
           LET u == reply.board[i][1] IN
           /\ reply.board[i][2] = 1
           /\ \E qid \in ScoreQuestions :
                  /\ Has(yon_user_answers, <<u, qid>>) /\ yon_user_answers[<<u, qid>>] = "yes"
                  /\ Has(yon_correct_answers, qid) /\ yon_correct_answers[qid] = "Yes"
           /\ \E qid \in ScoreQuestions :
                  Has(yon_user_answers, <<u, qid>>) /\ ~Has(yon_correct_answers, qid)

(***************************************************************************)
(* The board of many users.  Two closed questions with the correct answer  *)
(* Yes; the first MaxRanked - 1 or MaxRanked users of RankUsers answered    *)
(* the first question in that order, any of them with Yes, and at most one *)
(* of them (the first, the middle or the last) also answered the second    *)
(* with Yes.  The order of first answers is not the order of the user ids. *)
(***************************************************************************)
MaxRanked == 11
RankUsers == <<"r07", "r03", "r11", "r01", "r09", "r05", "r12", "r02", "r10", "r06",
               "r04", "r08", "r13">>
RankQuestion == [question |-> "Will it rain?", options |-> <<"Yes", "No">>]

InitBoard ==
    \E n \in {0, MaxRanked - 1, MaxRanked} : \E right \in SUBSET (1..n), both \in {0, 1, (n + 1) \div 2, n} :
        /\ variant \in Variants
        /\ matches = EmptyDict
        /\ user_teams = EmptyDict
        /\ captains = EmptyDict
        /\ vice_captains = EmptyDict
        /\ pending_bets = EmptyDict
        /\ amounts = EmptyDict
        /\ points = EmptyDict
        /\ yon_questions = (1 :> RankQuestion) @@ (2 :> RankQuestion)
        /\ yon_user_answers =
               [k \in {<<RankUsers[i], 1>> : i \in 1..n} \cup {<<RankUsers[i], 2>> : i \in {both} \ {0}} |->
                   IF k[2] = 2 \/ \E i \in right : RankUsers[i] = k[1] THEN "Yes" ELSE "No"]
        /\ answerers = SubSeq(RankUsers, 1, n)
        /\ yon_correct_answers = (1 :> "Yes") @@ (2 :> "Yes")
        /\ locked_matches = {}
        /\ prompts = {}
        /\ vc_buttons = {}
        /\ issued_ids = {1, 2}
        /\ disk = Doc
        /\ bak = AnyFile
        /\ user_command_counts = EmptyDict
        /\ now = 0
        /\ storage_up = TRUE
        /\ calls = <<>>
        /\ seen = Doc
        /\ awaiting_upload = {}
        /\ first_run = NoRun
        /\ reply = [op |-> "yona", to |-> "adm", text |-> "CorrectSet"]
        /\ script = -1
        /\ steps = -1

NextBoard == yonrankings("u1")

SpecBoard == InitBoard /\ [][NextBoard]_vars

\* where u stands in the iteration order of db["yon_user_answers"]
Place(u) == CHOOSE i \in 1..Len(answerers) : answerers[i] = u
Listed == {reply.board[i][1] : i \in 1..Len(reply.board)}

\* C26: the board is in descending order of score, has at most 10 lines,
\* no listed user has a lower score than a user left out, and users with
\* the same score stand in the order in which the answers are iterated.
BoardIsTopTenStable ==
    Ranked =>
        LET board == reply.board IN
        /\ Len(board) <= 10
        /\ Cardinality(Listed) = Len(board)
        /\ Listed \subseteq Range(answerers)
        /\ Len(answerers) <= 10 => Listed = Range(answerers)
        /\ \A i \in 1..Len(board) : board[i][2] = Cardinality(Correct(board[i][1]))
        /\ \A i, j \in 1..Len(board) :
               i < j => /\ board[i][2] >= board[j][2]
                        /\ board[i][2] = board[j][2] => Place(board[i][1]) < Place(board[j][1])
        /\ \A i \in 1..Len(board), u \in Range(answerers) \ Listed :
               board[i][2] >= Cardinality(Correct(u))

\* a board cut to ten of eleven or more users, with three different scores
\* on it and two users of the same score
BoardCutWithTies ==
    /\ Ranked
    /\ Len(answerers) > 10
    /\ Len(reply.board) = 10
    /\ Cardinality({reply.board[i][2] : i \in 1..10}) = 3
    /\ \E i \in 1..9 : reply.board[i][2] = reply.board[i + 1][2]

(***************************************************************************)
(* Restore.  /upload puts the administrator in upload mode; the next file  *)
(* that user sends is taken as the new document.  A file is its name (does *)
(* it end in .json), what json.loads makes of it (an object, a value that  *)
(* is no container, or a parse error), the top-level keys of the object    *)
(* and the document the object holds.                                      *)
(***************************************************************************)
required_keys == {"matches", "user_teams", "points", "amounts", "yon_questions",
                  "yon_user_answers", "yon_correct_answers", "pending_bets",
                  "captains", "vice_captains"}

upload(a) ==
    /\ Track(<<"upload", a>>)
    /\ UNCHANGED <<variant, spamvars, first_run, storage_up, seen, vc_buttons, issued_ids,
                   locked_matches, prompts, dbvars, files>>
    /\ IF ~is_admin(a)
       THEN Respond("upload", a, "NotAuthorized") /\ UNCHANGED awaiting_upload
       ELSE /\ awaiting_upload' = awaiting_upload \cup {a}
            /\ Respond("upload", a, "SendFile")

\* faulty variant: any object passes
has_any_keys(file) == TRUE
\* all(key in new_db for key in required_keys)
has_required_keys(file) == required_keys \subseteq file.keys

\* faulty variant: the flag outlives the attempt
flag_kept(a) == awaiting_upload
\* context.user_data["awaiting_upload"] = False
flag_cleared(a) == awaiting_upload \ {a}

handle_uploaded_file(a, file) ==
    /\ Track(<<"handle_uploaded_file", a, file>>)
    /\ UNCHANGED <<variant, spamvars, first_run, storage_up, seen, vc_buttons, locked_matches, prompts>>
    /\ IF ~is_admin(a) \/ a \notin awaiting_upload
       THEN /\ Respond("handle_uploaded_file", a, "NotAuthorized")
            /\ UNCHANGED <<dbvars, files, issued_ids, awaiting_upload>>
       ELSE /\ awaiting_upload' = flag_cleared(a)
            /\ IF ~file.json
               THEN /\ Respond("handle_uploaded_file", a, "InvalidFile")
                    /\ UNCHANGED <<dbvars, files, issued_ids>>
               ELSE IF file.kind = "garbage"
               THEN /\ Respond("handle_uploaded_file", a, "ParseError")
                    /\ UNCHANGED <<dbvars, files, issued_ids>>
               ELSE IF file.kind = "scalar"
               THEN /\ Respond("handle_uploaded_file", a, "RestoreFailed")
                    /\ UNCHANGED <<dbvars, files, issued_ids>>
               ELSE IF ~has_required_keys(file)
               THEN /\ Respond("handle_uploaded_file", a, "InvalidFormat")
                    /\ UNCHANGED <<dbvars, files, issued_ids>>
               ELSE /\ matches' = file.doc.matches
                    /\ user_teams' = file.doc.user_teams
                    /\ points' = file.doc.points
                    /\ amounts' = file.doc.amounts
                    /\ yon_questions' = file.doc.yon_questions
                    /\ yon_user_answers' = file.doc.yon_user_answers
                    /\ answerers' = file.doc.answerers
                    /\ yon_correct_answers' = file.doc.yon_correct_answers
                    /\ pending_bets' = file.doc.pending_bets
                    /\ captains' = file.doc.captains
                    /\ vice_captains' = file.doc.vice_captains
                    /\ issued_ids' = issued_ids \cup DOMAIN file.doc.yon_questions
                    /\ Respond("handle_uploaded_file", a, "Restored")
                    /\ save_db

(***************************************************************************)
(* Restore over a catalog of up to two matches: the files sent are a       *)
(* backup of the empty document and one of a document with match B and a   *)
(* squad, each whole or with one or all of the required keys taken out,    *)
(* a file that does not parse, one that holds a number, and one whose name *)
(* does not end in .json.                                                  *)
(***************************************************************************)
EmptyDocument ==
    [matches |-> EmptyDict, user_teams |-> EmptyDict, points |-> EmptyDict,
     amounts |-> EmptyDict, yon_questions |-> EmptyDict, yon_user_answers |-> EmptyDict,
     answerers |-> <<>>, yon_correct_answers |-> EmptyDict, pending_bets |-> EmptyDict,
     captains |-> EmptyDict, vice_captains |-> EmptyDict]
BackupDocument ==
    [EmptyDocument EXCEPT
        !.matches = ("B" :> [teams |-> ("X" :> <<"P1">>), players |-> <<"P1">>]),
        !.user_teams = (<<"u1", "B">> :> <<"P1">>),
        !.captains = (<<"u1", "B">> :> "P1")]
KeySets == {required_keys, {}} \cup {required_keys \ {k} : k \in required_keys}
Files ==
    [json : {TRUE}, kind : {"object"}, keys : KeySets, doc : {EmptyDocument, BackupDocument}]
        \cup [json : {TRUE}, kind : {"garbage", "scalar"}, keys : {{}}, doc : {EmptyDocument}]
        \cup [json : {FALSE}, kind : {"object"}, keys : {required_keys}, doc : {BackupDocument}]
Uploaders == {"adm", "u1"}

NextRestore ==
    \/ \E m \in Matches : addmatch("adm", m)
    \/ \E a \in Uploaders : upload(a)
    \/ \E a \in Uploaders, file \in Files : handle_uploaded_file(a, file)
    \/ restart

SpecRestore == Init /\ [][NextRestore]_vars

MatchCommandsRefuse ==
    [][/\ \A m \in Matches :
              (/\ reply'.op = "addmatch" /\ is_admin(reply'.to) /\ Has(matches, m)
               /\ addmatch(reply'.to, m))
              => reply'.text = "MatchExists" /\ UNCHANGED <<dbvars, disk, locked_matches>>
       /\ \A m \in Matches :
              (/\ reply'.op = "removematch" /\ is_admin(reply'.to) /\ ~Has(matches, m)
               /\ removematch(reply'.to, m))
              => reply'.text = "MatchNotFound" /\ UNCHANGED <<dbvars, disk, locked_matches>>]_vars

\* /addmatch was refused on a catalog whose matches have teams, a squad and
\* a verified bet
ExistingMatchKept ==
    /\ reply.op = "addmatch"
    /\ reply.text = "MatchExists"
    /\ \E m \in DOMAIN matches :
           /\ matches[m].players # <<>>
           /\ \E u \in Users : Has(user_teams, <<u, m>>) /\ Has(amounts, <<u, m>>)

\* /removematch was refused while another match was in the catalog
AbsentMatchRefused ==
    /\ reply.op = "removematch"
    /\ reply.text = "MatchNotFound"
    /\ matches # EmptyDict

(***************************************************************************)
(* Squad ranking.  Neither program answers with a squad score: /points     *)
(* stores a player's points and no handler reads them back.  The score is  *)
(* written here as the specification words it: every player of every squad *)
(* of the user counts PlayerPoints times 2 (captain), 1.5 (vice-captain)   *)
(* or 1, a player without points counting 0.  Scores are kept in halves,   *)
(* so that 1.5 is the whole number 3: a score of 370 is 740 halves.        *)
(***************************************************************************)
\* faulty variant: the vice-captain counts like any other player
multiplier_flat(u, m, p) ==
    IF Has(captains, <<u, m>>) /\ captains[<<u, m>>] = p THEN 4 ELSE 2
\* twice the multiplier of player p in the squad of u for m
multiplier(u, m, p) ==
    IF Has(captains, <<u, m>>) /\ captains[<<u, m>>] = p THEN 4
    ELSE IF Has(vice_captains, <<u, m>>) /\ vice_captains[<<u, m>>] = p THEN 3
    ELSE 2

\* PlayerPoints[p], 0 when missing
player_points(p) == IF Has(points, p) THEN points[p] ELSE 0

RECURSIVE squad_halves(_, _, _)
\* the players of one squad, from the i-th on
squad_halves(u, m, i) ==
    IF i > Len(user_teams[<<u, m>>]) THEN 0
    ELSE player_points(user_teams[<<u, m>>][i]) * multiplier(u, m, user_teams[<<u, m>>][i])
             + squad_halves(u, m, i + 1)

RECURSIVE score_halves(_, _)
\* the squads of u for the matches ms
score_halves(u, ms) ==
    IF ms = {} THEN 0
    ELSE LET m == CHOOSE x \in ms : TRUE IN
         (IF Has(user_teams, <<u, m>>) THEN squad_halves(u, m, 1) ELSE 0)
             + score_halves(u, ms \ {m})

squad_ranking(u) ==
    /\ Track(<<"squad_ranking", u>>)
    /\ reply' = [op |-> "squad_ranking", to |-> u, text |-> "Rankings",
                 halves |-> [x \in {k[1] : k \in DOMAIN user_teams} |-> score_halves(x, Matches)]]
    /\ UNCHANGED <<variant, spamvars, first_run, storage_up, seen, awaiting_upload, vc_buttons,
                   issued_ids, locked_matches, prompts, dbvars, files>>

(***************************************************************************)
(* The scored squads: u1 has the squad P1, P2, P3 for match A, with no     *)
(* roles, a captain, or a captain and a vice-captain, and possibly the     *)
(* squad P1 for match B; each player has 50, 80 or 100 points or none.     *)
(***************************************************************************)
ScoredPlayers == <<"P1", "P2", "P3">>
ScoredRoster == [teams |-> ("X" :> ScoredPlayers), players |-> ScoredPlayers]
ScoredPoints == {50, 80, 100}

InitScored ==
    \E holders \in SUBSET Range(ScoredPlayers), roles \in 0..2, second \in BOOLEAN :
    \E pts \in [holders -> ScoredPoints], c, v \in Range(ScoredPlayers) :
        /\ c # v
        /\ variant \in Variants
        /\ matches = ("A" :> ScoredRoster) @@ ("B" :> ScoredRoster)
        /\ user_teams = (<<"u1", "A">> :> ScoredPlayers)
                            @@ (IF second THEN <<"u1", "B">> :> <<"P1">> ELSE EmptyDict)
        /\ captains = IF roles >= 1 THEN <<"u1", "A">> :> c ELSE EmptyDict
        /\ vice_captains = IF roles >= 2 THEN <<"u1", "A">> :> v ELSE EmptyDict
        /\ pending_bets = EmptyDict
        /\ amounts = EmptyDict
        /\ points = pts
        /\ yon_questions = EmptyDict
        /\ yon_user_answers = EmptyDict
        /\ answerers = <<>>
        /\ yon_correct_answers = EmptyDict
        /\ locked_matches = {}
        /\ prompts = {}
        /\ vc_buttons = {}
        /\ issued_ids = {}
        /\ disk = Doc
        /\ bak = AnyFile
        /\ user_command_counts = EmptyDict
        /\ now = 0
        /\ storage_up = TRUE
        /\ calls = <<>>
        /\ seen = Doc
        /\ awaiting_upload = {}
        /\ first_run = NoRun
        /\ reply = [op |-> "points", to |-> "adm", text |-> "PointsSet"]
        /\ script = -1
        /\ steps = -1

NextScored == squad_ranking("u1")

SpecScored == InitScored /\ [][NextScored]_vars

RECURSIVE PointsOf(_, _)
\* the points of the players of a squad from the i-th on, missing ones as 0
PointsOf(squad, i) ==
    IF i > Len(squad) THEN 0
    ELSE (IF squad[i] \in DOMAIN points THEN points[squad[i]] ELSE 0) + PointsOf(squad, i + 1)
\* the points of the player holding a role in the squad, 0 without one
RolePoints(roles, k) ==
    IF k \in DOMAIN roles /\ roles[k] \in DOMAIN points /\ In(roles[k], user_teams[k])
    THEN points[roles[k]] ELSE 0
SquadsOf(u) == {k \in DOMAIN user_teams : k[1] = u}
RECURSIVE Total(_)
\* every player once, the captain once more, the vice-captain half more
Total(ks) ==
    IF ks = {} THEN 0
    ELSE LET k == CHOOSE x \in ks : TRUE IN
         2 * PointsOf(user_teams[k], 1) + 2 * RolePoints(captains, k)
             + RolePoints(vice_captains, k) + Total(ks \ {k})
TheExample ==
    /\ user_teams = (<<"u1", "A">> :> ScoredPlayers)
    /\ captains = (<<"u1", "A">> :> "P1")
    /\ vice_captains = (<<"u1", "A">> :> "P2")
    /\ points = ("P1" :> 100) @@ ("P2" :> 80) @@ ("P3" :> 50)

\* C29: the squad score of a user is the sum over the players of the
\* user's squads of the player's points times 2 for the captain, 1.5 for
\* the vice-captain and 1 otherwise, a player without points counting 0;
\* the squad P1 (captain), P2 (vice-captain), P3 with 100, 80 and 50 points
\* scores 370.
SquadScoreIsWeightedSum ==
    reply.op = "squad_ranking" =>
        /\ \A u \in DOMAIN reply.halves : reply.halves[u] = Total(SquadsOf(u))
        /\ DOMAIN reply.halves = {k[1] : k \in DOMAIN user_teams}
        /\ TheExample => reply.halves["u1"] = 2 * 370

\* the example squad was scored
ExampleScored == reply.op = "squad_ranking" /\ TheExample /\ reply.halves["u1"] = 740

(***************************************************************************)
(* The two programs on the same calls.  The document holds match A with    *)
(* the players P1 and P2, the squad P1, P2 of u1 and one open question     *)
(* (addmatch, addteam, addplayer, two selectplayer clicks and yonadd lead  *)
(* both programs there).  bot.py receives a script of up to MaxTwin calls  *)
(* and handles them in order; what it made of them is kept, and            *)
(* hostthis.py is started on the same document and receives the same       *)
(* script.  A selectvc click is a button that a choosevc menu of the       *)
(* running program has rendered.                                           *)
(***************************************************************************)
MaxTwin == 3
TwinCalls == {<<"yon_answer", "u1", 1, "Yes">>, <<"yon_answer", "u1", 1, "No">>,
              <<"selectcaptain", "u1", "A", "P1">>, <<"choosevc", "u1", "A">>,
              <<"selectvc", "u1", "A", "P1">>, <<"selectvc", "u1", "A", "P2">>}
TwinScripts == UNION {[1..n -> TwinCalls] : n \in 1..MaxTwin}

InitTwin ==
    \E calls_sent \in TwinScripts :
        /\ variant = "bot"
        /\ matches = ("A" :> FrameRoster)
        /\ user_teams = (<<"u1", "A">> :> <<"P1", "P2">>)
        /\ captains = EmptyDict
        /\ vice_captains = EmptyDict
        /\ pending_bets = EmptyDict
        /\ amounts = EmptyDict
        /\ points = EmptyDict
        /\ yon_questions = (1 :> RankQuestion)
        /\ yon_user_answers = EmptyDict
        /\ answerers = <<>>
        /\ yon_correct_answers = EmptyDict
        /\ locked_matches = {}
        /\ prompts = {}
        /\ vc_buttons = {}
        /\ issued_ids = {1}
        /\ disk = Doc
        /\ bak = AnyFile
        /\ user_command_counts = EmptyDict
        /\ now = 0
        /\ storage_up = TRUE
        /\ calls = [i \in DOMAIN calls_sent |-> [call |-> calls_sent[i], done |-> FALSE]]
        /\ seen = Doc
        /\ awaiting_upload = {}
        /\ first_run = NoRun
        /\ reply = [op |-> "start", to |-> "adm", text |-> "Started"]
        /\ script = -1
        /\ steps = -1

\* call i is the next of the script
IsNext(i, op) == Ready(i, op) /\ \A j \in 1..(i - 1) : calls[j].done
AllDone == \A i \in DOMAIN calls : calls[i].done

\* hostthis.py starts on the document the calls were sent on and gets them anew
second_run ==
    /\ AllDone
    /\ ~first_run.done
    /\ first_run' = [done |-> TRUE, doc |-> Doc, locked |-> locked_matches, reply |-> reply]
    /\ variant' = "hostthis"
    /\ matches' = seen.matches
    /\ user_teams' = seen.user_teams
    /\ points' = seen.points
    /\ amounts' = seen.amounts
    /\ yon_questions' = seen.yon_questions
    /\ yon_user_answers' = seen.yon_user_answers
    /\ answerers' = seen.answerers
    /\ yon_correct_answers' = seen.yon_correct_answers
    /\ pending_bets' = seen.pending_bets
    /\ captains' = seen.captains
    /\ vice_captains' = seen.vice_captains
    /\ disk' = seen
    /\ bak' = bak
    /\ locked_matches' = {}
    /\ vc_buttons' = {}
    /\ calls' = [i \in DOMAIN calls |-> [calls[i] EXCEPT !.done = FALSE]]
    /\ reply' = [op |-> "start", to |-> "adm", text |-> "Started"]
    /\ UNCHANGED <<storage_up, seen, awaiting_upload, prompts, issued_ids, spamvars,
                   script, steps>>

NextTwin ==
    \/ \E i \in DOMAIN calls : IsNext(i, "yon_answer") /\
           LET c == calls[i].call IN yon_answer(c[2], c[3], c[4])
    \/ \E i \in DOMAIN calls : IsNext(i, "selectcaptain") /\
           LET c == calls[i].call IN selectcaptain(c[2], c[3], c[4])
    \/ \E i \in DOMAIN calls : IsNext(i, "choosevc") /\
           LET c == calls[i].call IN choosevc(c[2], c[3])
    \/ \E i \in DOMAIN calls : IsNext(i, "selectvc") /\
           LET c == calls[i].call IN
           <<c[2], c[3], c[4]>> \in vc_buttons /\ selectvc(c[2], c[3], c[4])
    \/ second_run

SpecTwin == InitTwin /\ [][NextTwin]_vars

\* C30: run on the same calls, bot.py and hostthis.py give the same last
\* answer (they accept and reject the same calls) and end with the same
\* document and the same locks.
VariantsAgree ==
    (first_run.done /\ AllDone) =>
        /\ reply = first_run.reply
        /\ Doc = first_run.doc
        /\ locked_matches = first_run.locked

(***************************************************************************)
(* The lock among callbacks in flight.  Three updates have been received   *)
(* together on match A: /lockmatch or /unlockmatch of the administrator    *)
(* and clicks of u1 (create, selectplayer, removeplayer, selectcaptain,    *)
(* selectvc, room).  Each handler is suspended at its first await and its  *)
(* body, from the lock test to save_db, runs without suspension; the       *)
(* bodies run in any order.  A selectvc click is a button of a menu        *)
(* rendered before.                                                        *)
(***************************************************************************)
LockCalls ==
    {<<"lock_match", "adm", "A">>, <<"unlock_match", "adm", "A">>, <<"create", "u1", "A">>,
     <<"selectplayer", "u1", "A", "X", "P2">>, <<"removeplayer", "u1", "A", "P1", "X">>,
     <<"selectcaptain", "u1", "A", "P1">>, <<"selectvc", "u1", "A", "P2">>,
     <<"room", "u1", "A", "Chotu", 500, TRUE>>}
Slots == {1, 2, 3}

InitLock ==
    \E received \in [Slots -> LockCalls], squad \in RaceSquads :
        /\ variant \in Variants
        /\ matches = ("A" :> FrameRoster)
        /\ user_teams = (<<"u1", "A">> :> squad)
        /\ captains = EmptyDict
        /\ vice_captains = EmptyDict
        /\ pending_bets = EmptyDict
        /\ amounts = EmptyDict
        /\ points = EmptyDict
        /\ yon_questions = EmptyDict
        /\ yon_user_answers = EmptyDict
        /\ answerers = <<>>
        /\ yon_correct_answers = EmptyDict
        /\ locked_matches = {}
        /\ prompts = {}
        /\ vc_buttons = {<<"u1", "A", p>> : p \in Range(squad)}
        /\ issued_ids = {}
        /\ disk = Doc
        /\ bak = AnyFile
        /\ user_command_counts = EmptyDict
        /\ now = 0
        /\ storage_up = TRUE
        /\ calls = [i \in Slots |-> [call |-> received[i], done |-> FALSE]]
        /\ seen = [locked_matches |-> locked_matches] @@ Doc
        /\ awaiting_upload = {}
        /\ first_run = NoRun
        /\ reply = [op |-> "start", to |-> "adm", text |-> "Started"]
        /\ script = -1
        /\ steps = -1

NextLock ==
    \/ \E i \in DOMAIN calls : Ready(i, "lock_match") /\
           LET c == calls[i].call IN lock_match(c[2], c[3])
    \/ \E i \in DOMAIN calls : Ready(i, "unlock_match") /\
           LET c == calls[i].call IN unlock_match(c[2], c[3])
    \/ \E i \in DOMAIN calls : Ready(i, "create") /\
           LET c == calls[i].call IN create(c[2], c[3])
    \/ \E i \in DOMAIN calls : Ready(i, "selectplayer") /\
           LET c == calls[i].call IN selectplayer(c[2], c[3], c[4], c[5])
    \/ \E i \in DOMAIN calls : Ready(i, "removeplayer") /\
           LET c == calls[i].call IN removeplayer(c[2], c[3], c[4], c[5])
    \/ \E i \in DOMAIN calls : Ready(i, "selectcaptain") /\
           LET c == calls[i].call IN selectcaptain(c[2], c[3], c[4])
    \/ \E i \in DOMAIN calls : Ready(i, "selectvc") /\
           LET c == calls[i].call IN
           <<c[2], c[3], c[4]>> \in vc_buttons /\ selectvc(c[2], c[3], c[4])
    \/ \E i \in DOMAIN calls : Ready(i, "room") /\
           LET c == calls[i].call IN room(c[2], c[3], c[4], c[5], c[6])

SpecLock == InitLock /\ [][NextLock]_vars

GatedOps == {"create", "selectplayer", "removeplayer", "selectcaptain", "selectvc", "room"}
KeysOf(m) == {k \in Users \X Matches : k[2] = m}

\* C31: whatever the order in which the bodies of the handlers in flight
\* run, a createSquad, selectPlayer, removePlayer, setCaptain,
\* setViceCaptain or requestBet handler that runs while the match is locked
\* (one received before the lock included) changes no squad, captain,
\* vice-captain or pending bet of the match.
LockHoldsInEveryInterleaving ==
    [][\A m \in Matches :
          (m \in locked_matches /\ reply'.op \in GatedOps) =>
              \A k \in KeysOf(m) :
                  /\ SameAt(user_teams, user_teams', k)
                  /\ SameAt(captains, captains', k)
                  /\ SameAt(vice_captains, vice_captains', k)
                  /\ SameAt(pending_bets, pending_bets', k)]_vars

\* a click received together with /lockmatch, before the lock was set, was
\* refused because its body ran after the lock
EarlierClickRefused ==
    /\ "A" \in locked_matches
    /\ reply.op \in GatedOps
    /\ reply.text = "MatchLocked"
    /\ "locked_matches" \in DOMAIN seen /\ "A" \notin seen.locked_matches
    /\ \E i \in DOMAIN calls : calls[i].done /\ calls[i].call[1] = "lock_match"

\* C32: a requestBet whose verification prompt could not be delivered
\* reports the failure and leaves PendingBet as it was before the request;
\* hence every stored PendingBet has a delivered prompt of the same amount.
UndeliveredRequestLeavesNoPending ==
    /\ [][(reply'.op = "room" /\ reply'.text = "SendFailed") => UNCHANGED pending_bets]_vars
    /\ [](\A k \in DOMAIN pending_bets : <<k[1], k[2], pending_bets[k].amount>> \in prompts)

(***************************************************************************)
(* Two matches, one user: the catalog commands, the squad and bet clicks   *)
(* of u1 on either match (also on a match that has been removed: buttons   *)
(* outlive it), Verify clicks on the prompts delivered, and restarts.      *)
(***************************************************************************)
NextRefs ==
    \/ \E m \in Matches : addmatch("adm", m)
    \/ \E m \in Matches : removematch("adm", m)
    \/ clear("adm")
    \/ \E m \in Matches : create("u1", m)
    \/ \E m \in Matches : selectplayer("u1", m, "X", "P1")
    \/ \E m \in Matches : removeplayer("u1", m, "P1", "X")
    \/ \E m \in Matches : selectcaptain("u1", m, "P1")
    \/ \E m \in Matches : selectvc("u1", m, "P1")
    \/ \E m \in Matches, sent \in BOOLEAN : room("u1", m, Chotu.room, Chotu.amount, sent)
    \/ \E pr \in prompts : verify_bet("adm", pr[1], pr[2], pr[3])
    \/ restart

SpecRefs == Init /\ [][NextRefs]_vars

\* the matches that squads, roles, pending and verified bets are stored under
MatchesReferredTo ==
    {k[2] : k \in DOMAIN user_teams \cup DOMAIN captains \cup DOMAIN vice_captains
                     \cup DOMAIN pending_bets \cup DOMAIN amounts}

\* C33: every squad, captain, vice-captain, pending-bet and verified-bet
\* entry is stored under a match that is in the catalog.
EntriesReferToMatches == MatchesReferredTo \subseteq DOMAIN matches

\* a match with a squad and bets was removed while another match, with a
\* squad of its own, stayed in the catalog
MatchRemovedOtherKept ==
    /\ reply.op = "removematch" /\ reply.text = "MatchRemoved"
    /\ DOMAIN matches = {"B"}
    /\ MatchesReferredTo = {"B"}
    /\ Has(disk.matches, "B") /\ ~Has(disk.matches, "A")

(***************************************************************************)
(* Rosters: the admin adds and removes teams and players of match A, with  *)
(* two teams and name lists that share a player name.                      *)
(***************************************************************************)
MaxRoster == 3
RosterTeams == {"X", "Y"}
RosterNames == { <<"P1">>, <<"P1", "P2">> }

\* room left in the flattened list of m and in the roster of t for names
RosterRoom(m, t, names) ==
    /\ Has(matches, m) =>
          /\ Len(matches[m].players) + Len(names) <= MaxRoster
          /\ Has(matches[m].teams, t) =>
                Len(matches[m].teams[t]) + Len(names) <= MaxRoster

NextRoster ==
    \/ addmatch("adm", "A")
    \/ \E t \in RosterTeams : addteam("adm", "A", t)
    \/ \E t \in RosterTeams : removeteam("adm", "A", t)
    \/ \E t \in RosterTeams, names \in RosterNames :
          RosterRoom("A", t, names) /\ addplayer("adm", "A", t, names)
    \/ \E t \in RosterTeams : resetplayers("adm", "A", t)

SpecRoster == Init /\ [][NextRoster]_vars

\* how many times p occurs in the list s
Occurrences(s, p) == Cardinality({i \in DOMAIN s : s[i] = p})

RECURSIVE OnRosters(_, _, _)
\* how many times p occurs on the rosters of the teams ts of match m
OnRosters(m, ts, p) ==
    IF ts = {} THEN 0
    ELSE LET t == CHOOSE x \in ts : TRUE
         IN Occurrences(matches[m].teams[t], p) + OnRosters(m, ts \ {t}, p)

\* C34: the flattened players list of every match holds exactly the players
\* of the rosters of its teams, each as often as the rosters hold it.
PlayersListMatchesRosters ==
    \A m \in DOMAIN matches : \A p \in Players :
        Occurrences(matches[m].players, p) = OnRosters(m, DOMAIN matches[m].teams, p)

(***************************************************************************)
(* Squads against rosters: the admin builds and takes down the roster of   *)
(* team X of match A while u1 clicks the player buttons of that team. A    *)
(* Select button is clicked only while its player is on the roster (a      *)
(* keyboard that has just been rendered).                                  *)
(***************************************************************************)
on_roster(m, t, p) ==
    Has(matches, m) /\ Has(matches[m].teams, t) /\ In(p, matches[m].teams[t])

NextPick ==
    \/ addmatch("adm", "A")
    \/ addteam("adm", "A", "X")
    \/ \E names \in RosterNames :
          RosterRoom("A", "X", names) /\ addplayer("adm", "A", "X", names)
    \/ removeteam("adm", "A", "X")
    \/ resetplayers("adm", "A", "X")
    \/ \E p \in Players : on_roster("A", "X", p) /\ selectplayer("u1", "A", "X", p)
    \/ \E p \in Players : removeplayer("u1", "A", p, "X")

SpecPick == Init /\ [][NextPick]_vars

\* C35: every player of every squad is on the roster of some team of the
\* match the squad is for.
SquadPlayersOnRoster ==
    \A k \in DOMAIN user_teams : \A p \in Range(user_teams[k]) :
        /\ Has(matches, k[2])
        /\ \E t \in DOMAIN matches[k[2]].teams : In(p, matches[k[2]].teams[t])

\* C36: whoever has a verified bet for a match has a non-empty squad for it.
VerifiedBetHasSquad ==
    \A k \in DOMAIN amounts : Has(user_teams, k) /\ user_teams[k] # <<>>

(***************************************************************************)
(* Answers against the questions in store.  The run starts after the admin *)
(* added question 1 and the users were shown its keyboard: seen is the     *)
(* document that keyboard was rendered from, and its two buttons stay on   *)
(* screen whatever the admin does next.                                    *)
(***************************************************************************)
OptionPairs == { <<"Yes", "No">>, <<"Up", "Down">> }
Askers == {"u1", "u2"}

InitAsked ==
    /\ variant \in Variants
    /\ matches = EmptyDict
    /\ user_teams = EmptyDict
    /\ captains = EmptyDict
    /\ vice_captains = EmptyDict
    /\ pending_bets = EmptyDict
    /\ amounts = EmptyDict
    /\ points = EmptyDict
    /\ yon_questions = 1 :> [question |-> "Q", options |-> <<"Yes", "No">>]
    /\ yon_user_answers = EmptyDict
    /\ answerers = <<>>
    /\ yon_correct_answers = EmptyDict
    /\ locked_matches = {}
    /\ prompts = {}
    /\ vc_buttons = {}
    /\ issued_ids = {1}
    /\ disk = Doc
    /\ bak = AnyFile
    /\ user_command_counts = EmptyDict
    /\ now = 0
    /\ storage_up = TRUE
    /\ calls = <<>>
    /\ seen = Doc
    /\ awaiting_upload = {}
    /\ first_run = NoRun
    /\ reply = [op |-> "yonadd", to |-> "adm", text |-> "QuestionAdded"]
    /\ script = -1
    /\ steps = -1

\* the answer buttons of question qid on screen: those rendered at the start
\* and those of the question in store
answer_buttons(qid) ==
    Range(seen.yon_questions[qid].options)
        \cup (IF Has(yon_questions, qid) THEN Range(yon_questions[qid].options) ELSE {})

NextAsked ==
    \/ yonclear("adm")
    \/ \E o \in OptionPairs : yon_questions = EmptyDict /\ yonadd("adm", "Q", o[1], o[2])
    \/ \E n \in {1, 2} : yona("adm", 1, n)
    \/ \E u \in Askers, a \in answer_buttons(1) : yon_answer(u, 1, a)

SpecAsked == InitAsked /\ [][NextAsked]_vars

\* C37: every recorded answer, and every recorded correct answer, of a
\* question id is one of the two options of the question stored under it.
AnswersAreOptions ==
    /\ \A k \in DOMAIN yon_user_answers :
          /\ Has(yon_questions, k[2])
          /\ In(yon_user_answers[k], yon_questions[k[2]].options)
    /\ \A q \in DOMAIN yon_correct_answers :
          /\ Has(yon_questions, q)
          /\ In(yon_correct_answers[q], yon_questions[q].options)

\* C38: a sent document changes the document in memory or the persisted one
\* only when its sender is an administrator in upload mode; only /upload of
\* an administrator puts its sender in upload mode; every document handled
\* for an administrator in upload mode, restored or refused, ends the upload
\* mode; and a document of a sender who is not in upload mode is answered
\* NotAuthorized and changes nothing.
RestoreNeedsFreshUpload ==
    [][/\ \A a \in Uploaders :
              a \in awaiting_upload' \ awaiting_upload
              => reply'.op = "upload" /\ reply'.to = a /\ a \in ADMIN_IDS
       /\ reply'.op = "handle_uploaded_file" =>
              IF reply'.to \in ADMIN_IDS /\ reply'.to \in awaiting_upload
              THEN reply'.to \notin awaiting_upload'
              ELSE /\ reply'.text = "NotAuthorized"
                   /\ UNCHANGED <<dbvars, disk, awaiting_upload>>]_vars

\* after a restore of the backup, a further document of the administrator
\* was refused: the upload mode had ended with the restore
SecondDocumentRefused ==
    /\ reply.op = "handle_uploaded_file"
    /\ reply.to = "adm"
    /\ reply.text = "NotAuthorized"
    /\ Has(matches, "B") /\ Has(matches["B"].teams, "X")
    /\ awaiting_upload = {}

(***************************************************************************)
(* hostthis.py stopped inside save_db.  save_db copies the data file to    *)
(* its .bak, opens the data file for writing, which empties it, and dumps  *)
(* the document into it.  A process stopped after the open leaves the file *)
(* empty, holding part of the text, or holding all of it; the next start   *)
(* reads the data file and nothing else.  Stop and next start are one      *)
(* step: nothing touches the files in between.  The run starts with a data *)
(* file that holds the empty document and no .bak copy yet.                *)
(***************************************************************************)
InitStop ==
    /\ variant = "hostthis"
    /\ matches = EmptyDict
    /\ user_teams = EmptyDict
    /\ captains = EmptyDict
    /\ vice_captains = EmptyDict
    /\ pending_bets = EmptyDict
    /\ amounts = EmptyDict
    /\ points = EmptyDict
    /\ yon_questions = EmptyDict
    /\ yon_user_answers = EmptyDict
    /\ answerers = <<>>
    /\ yon_correct_answers = EmptyDict
    /\ locked_matches = {}
    /\ prompts = {}
    /\ vc_buttons = {}
    /\ issued_ids = {}
    /\ disk = Doc
    /\ bak = NoFile
    /\ user_command_counts = EmptyDict
    /\ now = 0
    /\ storage_up = TRUE
    /\ calls = <<>>
    /\ seen = Doc
    /\ awaiting_upload = {}
    /\ first_run = NoRun
    /\ reply = [op |-> "start", to |-> "adm", text |-> "Started"]
    /\ script = -1
    /\ steps = -1

\* the document /addmatch m is about to save
with_match(m) == [Doc EXCEPT !.matches = Put(matches, m, [teams |-> EmptyDict, players |-> <<>>])]

\* /addmatch of the admin stopped in save_db after the open, then the next start
addmatch_stopped(a, m) ==
    /\ variant = "hostthis" /\ storage_up
    /\ is_admin(a) /\ ~match_in_db(m)
    /\ Track(<<"addmatch_stopped", a, m>>)
    /\ \E written \in {Torn, with_match(m)} :
          /\ bak' = disk
          /\ disk' = written
          /\ matches' = load(written).matches
          /\ user_teams' = load(written).user_teams
          /\ points' = load(written).points
          /\ amounts' = load(written).amounts
          /\ yon_questions' = load(written).yon_questions
          /\ yon_user_answers' = load(written).yon_user_answers
          /\ answerers' = load(written).answerers
          /\ yon_correct_answers' = load(written).yon_correct_answers
          /\ pending_bets' = load(written).pending_bets
          /\ captains' = load(written).captains
          /\ vice_captains' = load(written).vice_captains
    /\ locked_matches' = {}
    /\ awaiting_upload' = {}
    /\ user_command_counts' = EmptyDict
    /\ Respond("addmatch_stopped", a, "Started")
    /\ UNCHANGED <<variant, now, first_run, storage_up, seen, prompts, vc_buttons, issued_ids>>

NextStop ==
    \/ \E m \in Matches : addmatch("adm", m)
    \/ \E m \in Matches : addteam("adm", m, "X")
    \/ \E m \in Matches : removematch("adm", m)
    \/ \E m \in Matches : addmatch_stopped("adm", m)
    \/ restart

SpecStop == InitStop /\ [][NextStop]_vars

\* C39: the document hostthis.py starts with after it was stopped in save_db
\* is the one before the command or the one the command was saving; it is
\* not the empty structure while the .bak copy holds a document that is not
\* empty.
StoppedSaveLoadsOldOrNew ==
    /\ [][reply'.op = "addmatch_stopped" =>
             \/ Doc' = Doc
             \/ \E m \in Matches : Doc' = with_match(m)]_vars
    /\ [](reply.op = "addmatch_stopped" /\ bak \notin {NoFile, Torn, initialize_empty_db}
            => Doc # initialize_empty_db)

(***************************************************************************)
(* hostthis.py: the anti-spam counter.  Every command handler calls        *)
(* check_spam_limit first; the call is followed on its own here, with its  *)
(* result as the reply.  The clock moves by ticks of one cooldown period   *)
(* or one second more, so that a call arrives exactly at, and just after,  *)
(* the end of a period.                                                    *)
(***************************************************************************)
COMMAND_LIMIT == 30
COOLDOWN_PERIOD == 60
MaxClock == 122
MaxCalls == 32
MaxOtherCalls == 2
Callers == {"u1", "u2"}
Ticks == {COOLDOWN_PERIOD, COOLDOWN_PERIOD + 1}

\* faulty variant: the period is over at its last second
cooled_down_early(u, t) ==
    Has(user_command_counts, u) /\ t - user_command_counts[u].last_reset >= COOLDOWN_PERIOD
\* current_time - user_command_counts[user_id]["last_reset"] > COOLDOWN_PERIOD
cooled_down(u, t) ==
    Has(user_command_counts, u) /\ t - user_command_counts[u].last_reset > COOLDOWN_PERIOD

\* the entry of u once the reset test has been made at time t
fresh_entry(u, t) ==
    IF ~Has(user_command_counts, u) \/ cooled_down(u, t)
    THEN [count |-> 0, last_reset |-> t]
    ELSE user_command_counts[u]

check_spam_limit(u) ==
    LET entry == [fresh_entry(u, now) EXCEPT !.count = @ + 1] IN
    /\ Track(<<"check_spam_limit", u>>)
    /\ user_command_counts' = Put(user_command_counts, u, entry)
    /\ Respond("check_spam_limit", u, IF entry.count > COMMAND_LIMIT THEN "Refused" ELSE "Allowed")
    /\ UNCHANGED <<variant, now, first_run, storage_up, seen, awaiting_upload, vc_buttons,
                   issued_ids, locked_matches, prompts, dbvars, files>>

\* time passes
tick(d) ==
    /\ now + d <= MaxClock
    /\ now' = now + d
    /\ UNCHANGED <<variant, user_command_counts, first_run, storage_up, seen, awaiting_upload,
                   vc_buttons, issued_ids, locked_matches, prompts, dbvars, files,
                   calls, reply, script, steps>>

\* how many calls of u are followed within one period
calls_followed(u) == IF u = "u1" THEN MaxCalls ELSE MaxOtherCalls
\* u has calls left to follow: its count is below the bound, or a new period begins
may_call(u) ==
    IF ~Has(user_command_counts, u) THEN TRUE
    ELSE IF cooled_down(u, now) THEN TRUE
    ELSE user_command_counts[u].count < calls_followed(u)

InitSpam ==
    /\ variant = "hostthis"
    /\ matches = EmptyDict
    /\ user_teams = EmptyDict
    /\ captains = EmptyDict
    /\ vice_captains = EmptyDict
    /\ pending_bets = EmptyDict
    /\ amounts = EmptyDict
    /\ points = EmptyDict
    /\ yon_questions = EmptyDict
    /\ yon_user_answers = EmptyDict
    /\ answerers = <<>>
    /\ yon_correct_answers = EmptyDict
    /\ locked_matches = {}
    /\ prompts = {}
    /\ vc_buttons = {}
    /\ issued_ids = {}
    /\ disk = Doc
    /\ bak = AnyFile
    /\ user_command_counts = EmptyDict
    /\ now = 0
    /\ storage_up = TRUE
    /\ calls = <<>>
    /\ seen = Doc
    /\ awaiting_upload = {}
    /\ first_run = NoRun
    /\ reply = [op |-> "start", to |-> "adm", text |-> "Started"]
    /\ script = -1
    /\ steps = -1

NextSpam ==
    \/ \E u \in Callers : may_call(u) /\ check_spam_limit(u)
    \/ \E d \in Ticks : tick(d)
    \/ restart

SpecSpam == InitSpam /\ [][NextSpam]_vars

\* the entry of u before the call, when it has one
Entry(u) == user_command_counts[u]
\* the call of u arrives more than a cooldown period after its last reset
Late(u) == now - Entry(u).last_reset > COOLDOWN_PERIOD

\* C40: a call of check_spam_limit for a user whose 30 calls since
\* last_reset have been counted, arriving no more than 60 seconds after
\* last_reset, is refused; a call arriving more than 60 seconds after
\* last_reset starts a new window at its own time and is admitted; the
\* count holds every call since last_reset, and an admitted call is among
\* the first 30 of them; a refused call leaves last_reset as it was; and a
\* call never touches the entry of another user.
SpamLimitPerWindow ==
    [][(reply'.op = "check_spam_limit" /\ now' = now) =>
          LET u == reply'.to IN
          /\ IF ~Has(user_command_counts, u)
             THEN /\ reply'.text = "Allowed"
                  /\ user_command_counts'[u] = [count |-> 1, last_reset |-> now]
             ELSE IF Late(u)
             THEN /\ reply'.text = "Allowed"
                  /\ user_command_counts'[u] = [count |-> 1, last_reset |-> now]
             ELSE /\ user_command_counts'[u] =
                        [count |-> Entry(u).count + 1, last_reset |-> Entry(u).last_reset]
                  /\ Entry(u).count >= COMMAND_LIMIT => reply'.text = "Refused"
          /\ reply'.text = "Allowed" => user_command_counts'[u].count <= COMMAND_LIMIT
          /\ reply'.text = "Refused" =>
                /\ Has(user_command_counts, u)
                /\ user_command_counts'[u].last_reset = Entry(u).last_reset
          /\ \A v \in Callers \ {u} :
                /\ Has(user_command_counts', v) = Has(user_command_counts, v)
                /\ Has(user_command_counts, v) => user_command_counts'[v] = Entry(v)]_vars

\* u1 has been refused twice in a window that is exactly 60 seconds old
RefusedAtEndOfWindow ==
    /\ reply.op = "check_spam_limit" /\ reply.to = "u1" /\ reply.text = "Refused"
    /\ Has(user_command_counts, "u1")
    /\ user_command_counts["u1"].count = COMMAND_LIMIT + 2
    /\ now - user_command_counts["u1"].last_reset = COOLDOWN_PERIOD
    /\ Has(user_command_counts, "u2")

====
